---- MODULE Spec2Model ----
(***************************************************************************)
(* Verification model of the llm-scorm pipeline:                           *)
(*   - LLMCourseGenerator (llm_generator.py): generate_course, the retry   *)
(*     helper _call_llm_with_retry, the json_object hint flag and          *)
(*     _parse_llm_response;                                                *)
(*   - the /api/generate boundary of web_app.py with its in-flight flag,   *)
(*     and the status, upload, edit and build handlers beside it;          *)
(*   - SCORMBuilder.build (scorm_builder.py): resource compilation,        *)
(*     manifest and archive assembly;                                      *)
(*   - the structural validator validate_course_json, whose code is not    *)
(*     part of the sources and is modelled from its specification, and     *)
(*     generate_from_file (llm_generator.py).                              *)
(* Each part has its own specification over the shared variable list; the  *)
(* variables of the other parts stay at their initial values.              *)
(***************************************************************************)
EXTENDS Integers, Sequences, FiniteSets, TLC

VARIABLES
    \* ---- LLMCourseGenerator instance and the generate_course call in progress
    supports_json_format,   \* self._supports_json_format: "None" | "True" | "False"
    gpc,                    \* position of the current generate_course call
    phase,                  \* which branch of lines 164-179 the call is in
    hint,                   \* "response_format" present in request_kwargs
    attempt,                \* loop variable of _call_llm_with_retry
    tries,                  \* requests issued by the current helper invocation
    sleeps,                 \* time.sleep arguments of the current helper invocation
    requests,               \* requests issued by the current generate_course call
    lastOut,                \* what the service answered to the latest request
    helperExc,              \* exception raised by the helper (when gpc = "raised")
    fallbackCause,          \* exception caught at line 170 when the flag became False
    result,                 \* outcome of the latest finished generate_course call
    reqAtParse,             \* number of requests issued when the response was parsed
    calls,                  \* generate_course calls started on this instance
    has_key,                \* self.api_key or self.base_url is set
    installed,              \* the import of line 81 (from openai import OpenAI) succeeds
    cache,                  \* the cache files of OUTPUT_DIR: key -> text of the file
    cpc,                    \* how the latest call ended ("hit", "unreadable", "stored",
                            \* "unsaved", "raised"), or "generating"; "idle": not cached
    ckey,                   \* cache key of the latest generate_course_cached call
    cresult,                \* outcome of the latest generate_course_cached call
    \* ---- web_app.py: the _state dictionary, request handlers, worker threads
    generating,             \* _state["generating"]
    progress_pct,           \* _state["progress_pct"] (0 while the key is unset)
    last_error,             \* _state["last_error"]: NoError (None) or the message
    last_course_json,       \* _state["last_course_json"]: 0 (None) or the course, by origin
    last_scorm_path,        \* _state["last_scorm_path"]: 0 (None) or the course it was built from
    hpc,                    \* position of each POST /api/generate handler
    wresp,                  \* response of each POST /api/generate handler
    thread,                 \* state of the bg_generate thread each handler started
    latest,                 \* the run whose thread was started last (0: none yet)
    spc,                    \* position of the GET /api/generate-status handler
    sresp,                  \* the latest response of GET /api/generate-status
    upc,                    \* position of the /api/update-course handler
    bcourse,                \* the course /api/build-scorm is packaging (0: none)
    \* ---- SCORMBuilder.build: the call in progress and the output path on disk
    course,                 \* the course argument of build
    bpc,                    \* position of the build call
    files,                  \* the files dict, in insertion order
    resources,              \* the resources list
    organizations_tree,     \* the organizations_tree list
    manifest,               \* the element tree built by _generate_manifest
    zipped,                 \* entries of files already passed to zf.writestr
    disk,                   \* the file at output_path
    \* ---- course documents: validate_course_json and generate_from_file
    vpc,                    \* which call on a document has been made
    vinput,                 \* the argument of validate_course_json
    vout,                   \* the list of defects the call returned
    fin,                    \* the file given to generate_from_file
    fresult,                \* outcome of generate_from_file
    \* ---- SCORMBuilder._slugify
    stext,                  \* the argument of _slugify, a list of characters
    slug                    \* what _slugify returned (empty before the call)

genVars == <<supports_json_format, gpc, phase, hint, attempt, tries, sleeps,
             requests, lastOut, helperExc, fallbackCause, result, reqAtParse, calls,
             has_key, installed, cache, cpc, ckey, cresult>>

cacheVars == <<cache, cpc, ckey, cresult>>

statusVars == <<spc, sresp>>

packVars == <<upc, bcourse>>

webVars == <<generating, progress_pct, last_error, last_course_json, last_scorm_path, hpc,
             wresp, thread, latest, statusVars, packVars>>

buildVars == <<course, bpc, files, resources, organizations_tree, manifest, zipped, disk>>

docVars == <<vpc, vinput, vout, fin, fresult>>

slugVars == <<stext, slug>>

vars == <<genVars, webVars, buildVars, docVars, slugVars>>

(***************************************************************************)
(* Bounds                                                                  *)
(***************************************************************************)
MaxCalls == 2
NumRequests == 2
MaxModules == 2
MaxSections == 2
MaxScos == 2
MaxNodes == 8
MaxBlocks == 2
MaxTitleLen == 5

(***************************************************************************)
(* Strings: str.lower() and the substring test of Python's "in"            *)
(***************************************************************************)
LowerChar(c) ==
    CASE c = "A" -> "a" [] c = "B" -> "b" [] c = "C" -> "c" [] c = "D" -> "d"
      [] c = "E" -> "e" [] c = "F" -> "f" [] c = "G" -> "g" [] c = "H" -> "h"
      [] c = "I" -> "i" [] c = "J" -> "j" [] c = "K" -> "k" [] c = "L" -> "l"
      [] c = "M" -> "m" [] c = "N" -> "n" [] c = "O" -> "o" [] c = "P" -> "p"
      [] c = "Q" -> "q" [] c = "R" -> "r" [] c = "S" -> "s" [] c = "T" -> "t"
      [] c = "U" -> "u" [] c = "V" -> "v" [] c = "W" -> "w" [] c = "X" -> "x"
      [] c = "Y" -> "y" [] c = "Z" -> "z" [] OTHER -> c

RECURSIVE Lower(_)
Lower(s) ==
    IF Len(s) = 0 THEN ""
    ELSE LowerChar(SubSeq(s, 1, 1)) \o Lower(SubSeq(s, 2, Len(s)))

Contains(sub, s) ==
    \E i \in 1..(Len(s) - Len(sub) + 1) : SubSeq(s, i, i + Len(sub) - 1) = sub

(***************************************************************************)
(* Exceptions and service outcomes                                         *)
(***************************************************************************)
NoExc == [cls |-> "", status |-> 0, msg |-> ""]

\* Failures the underlying client.chat.completions.create call can raise:
\* cls is the Python class, status the HTTP status (0: no HTTP response),
\* msg is str(e).
ConnRefused  == [cls |-> "ConnectionError", status |-> 0,
                 msg |-> "Connection refused"]
TimedOut     == [cls |-> "TimeoutError", status |-> 0,
                 msg |-> "The read operation timed out"]
RateLimited  == [cls |-> "RateLimitError", status |-> 429,
                 msg |-> "Error code: 429 - Rate limit reached"]
Overloaded   == [cls |-> "InternalServerError", status |-> 503,
                 msg |-> "Error code: 503 - The server is overloaded"]
AuthFailed   == [cls |-> "AuthenticationError", status |-> 401,
                 msg |-> "Error code: 401 - Incorrect API key provided: sk-****abcd"]
AuthFailed5003 == [cls |-> "AuthenticationError", status |-> 401,
                 msg |-> "Error code: 401 - Incorrect API key provided: sk-****5003"]
HintRejected == [cls |-> "BadRequestError", status |-> 400,
                 msg |-> "Error code: 400 - response_format json_object is not supported"]

TransportErrors == {ConnRefused, TimedOut, RateLimited, Overloaded}
FatalErrors     == {AuthFailed, AuthFailed5003, HintRejected}

\* What the failure is, independently of how the helper classifies it.
IsTransportFailure(e) ==
    \/ e.cls \in {"ConnectionError", "TimeoutError"}
    \/ e.status \in {429, 500, 502, 503}

IsFatalFailure(e) == e.status \in {400, 401}

IsHintRejection(e) == e.status = 400 /\ Contains("response_format", e.msg)

ImportFailed == [cls |-> "ImportError", status |-> 0,
                 msg |-> "No module named 'openai'"]

(***************************************************************************)
(* _call_llm_with_retry: classification and backoff                        *)
(***************************************************************************)
max_retries == 3

IsRetryable(e) ==
    \/ e.cls \in {"ConnectionError", "TimeoutError"}
    \/ Contains("429", e.msg)
    \/ Contains("500", e.msg)
    \/ Contains("502", e.msg)
    \/ Contains("503", e.msg)
    \/ Contains("connect", Lower(e.msg))
    \/ Contains("timeout", Lower(e.msg))

\* variants of the retry condition with the bound off by one
ShouldRetry_SleepAfterLast(e, att) == IsRetryable(e) /\ att < max_retries
ShouldRetry_GiveUpEarly(e, att) == IsRetryable(e) /\ att < max_retries - 2

ShouldRetry(e, att) == IsRetryable(e) /\ att < max_retries - 1

Backoff(att) == 2 ^ att

(***************************************************************************)
(* _parse_llm_response over a response text given as a sequence of lexemes *)
(***************************************************************************)
FenceJson   == "<fence json>"
Fence       == "<fence>"
TitleMember == "title: T"
PagesMember == "pages: []"
PagesScalar == "pages: 1"
Prose       == "prose"
Number      == "1"

MemberTokens == {TitleMember, PagesMember, PagesScalar}

MemberKey(tok) == IF tok = TitleMember THEN "title" ELSE "pages"
MemberVal(tok) ==
    CASE tok = TitleMember -> "T"
      [] tok = PagesMember -> "[]"
      [] OTHER -> "1"

EmptyDict == [k \in {} |-> ""]
Put(d, k, v) == [x \in (DOMAIN d) \cup {k} |-> IF x = k THEN v ELSE d[x]]

\* lines 288-289: a leading fence (with or without "json") and a trailing
\* fence are removed
StripFences(raw) ==
    LET r1 == IF Len(raw) > 0 /\ raw[1] \in {FenceJson, Fence} THEN Tail(raw) ELSE raw
    IN  IF Len(r1) > 0 /\ r1[Len(r1)] = Fence THEN SubSeq(r1, 1, Len(r1) - 1) ELSE r1

\* line 292: every comma directly before a closing bracket is removed, in
\* one left-to-right pass
RECURSIVE DropCommasFrom(_, _)
DropCommasFrom(r, i) ==
    IF i > Len(r) THEN <<>>
    ELSE IF r[i] = "," /\ i < Len(r) /\ r[i + 1] \in {"}", "]"}
         THEN DropCommasFrom(r, i + 1)
         ELSE <<r[i]>> \o DropCommasFrom(r, i + 1)

StripTrailingCommas(r) == DropCommasFrom(r, 1)

\* json.loads: an object of members, or a bare number; anything else is a
\* JSONDecodeError.  kind is "dict", "int" or "error".
RECURSIVE MembersToDict(_, _)
MembersToDict(inner, i) ==
    IF i > Len(inner) THEN EmptyDict
    ELSE LET rest == MembersToDict(inner, i + 2)
         IN  IF MemberKey(inner[i]) \in DOMAIN rest THEN rest
             ELSE Put(rest, MemberKey(inner[i]), MemberVal(inner[i]))

WellFormedMembers(inner) ==
    /\ Len(inner) % 2 = 1
    /\ \A i \in 1..Len(inner) :
          IF i % 2 = 1 THEN inner[i] \in MemberTokens ELSE inner[i] = ","

json_loads(r) ==
    IF r = <<Number>> THEN [kind |-> "int", data |-> EmptyDict]
    ELSE IF Len(r) >= 2 /\ r[1] = "{" /\ r[Len(r)] = "}"
            /\ (Len(r) = 2 \/ WellFormedMembers(SubSeq(r, 2, Len(r) - 1)))
         THEN [kind |-> "dict",
               data |-> IF Len(r) = 2 THEN EmptyDict
                        ELSE MembersToDict(SubSeq(r, 2, Len(r) - 1), 1)]
         ELSE [kind |-> "error", data |-> EmptyDict]

\* raw.find('{') and raw.rfind('}') + 1, as 1-based positions (0: not found)
FirstBrace(r) ==
    IF \E i \in 1..Len(r) : r[i] = "{"
    THEN CHOOSE i \in 1..Len(r) : r[i] = "{" /\ \A j \in 1..(i - 1) : r[j] # "{"
    ELSE 0

LastBrace(r) ==
    IF \E i \in 1..Len(r) : r[i] = "}"
    THEN CHOOSE i \in 1..Len(r) : r[i] = "}" /\ \A j \in (i + 1)..Len(r) : r[j] # "}"
    ELSE 0

InvalidJson  == [cls |-> "ValueError", status |-> 0, msg |-> "LLM returned invalid JSON"]
NoJsonFound  == [cls |-> "ValueError", status |-> 0, msg |-> "LLM returned no JSON answer"]
NoTitle      == [cls |-> "ValueError", status |-> 0, msg |-> "LLM did not return field 'title'"]
NoPages      == [cls |-> "ValueError", status |-> 0, msg |-> "LLM did not return array 'pages'"]
NotIterable  == [cls |-> "TypeError", status |-> 0,
                 msg |-> "argument of type 'int' is not iterable"]

ParseErrors == {InvalidJson, NoJsonFound}

Parsed(d)  == [ok |-> TRUE, data |-> d, exc |-> NoExc]
Raised(e)  == [ok |-> FALSE, data |-> EmptyDict, exc |-> e]

\* lines 315-321
ValidateStructure(j) ==
    IF j.kind = "int" THEN Raised(NotIterable)
    ELSE IF "title" \notin DOMAIN j.data THEN Raised(NoTitle)
    ELSE IF "pages" \notin DOMAIN j.data \/ j.data["pages"] # "[]" THEN Raised(NoPages)
    ELSE Parsed(j.data)

parse_llm_response(raw) ==
    LET r     == StripTrailingCommas(StripFences(raw))
        first == json_loads(r)
        start == FirstBrace(r)
        end   == LastBrace(r)
    IN  IF first.kind # "error" THEN ValidateStructure(first)
        ELSE IF start >= 1 /\ end > start
             THEN LET second == json_loads(SubSeq(r, start, end))
                  IN  IF second.kind # "error" THEN ValidateStructure(second)
                      ELSE Raised(InvalidJson)
             ELSE Raised(NoJsonFound)

(***************************************************************************)
(* The service as seen through client.chat.completions.create              *)
(***************************************************************************)
Response(raw) == [ok |-> TRUE, raw |-> raw, exc |-> NoExc]
Failure(e)    == [ok |-> FALSE, raw |-> <<>>, exc |-> e]
NoOut         == Failure(NoExc)
NoResult      == Raised(NoExc)

ServiceRaws ==
    { <<"{", TitleMember, ",", PagesMember, "}">>,
      <<FenceJson, "{", TitleMember, ",", PagesMember, ",", "}", Fence>>,
      <<Prose, "{", TitleMember, ",", PagesMember, "}", Prose>>,
      <<Prose>>,
      <<"{", TitleMember, PagesMember, "}">>,
      <<"{", PagesMember, "}">>,
      <<"{", TitleMember, ",", PagesScalar, "}">>,
      <<Number>> }

ServiceErrors == TransportErrors \cup FatalErrors \cup {ImportFailed}

\* The service can reject the structured-response hint only on a request
\* that carries it.
ServiceOutcomes(h) ==
    {Response(r) : r \in ServiceRaws}
        \cup {Failure(e) : e \in {x \in ServiceErrors : IsHintRejection(x) => h}}

(***************************************************************************)
(* generate_course                                                         *)
(***************************************************************************)
MissingKey    == [cls |-> "ValueError", status |-> 0, msg |-> "OpenAI API key is not set"]
NotInstalled  == [cls |-> "ImportError", status |-> 0,
                  msg |-> "Package openai is not installed"]
NoneResponse  == [cls |-> "AttributeError", status |-> 0,
                  msg |-> "'NoneType' object has no attribute 'choices'"]

Finish(res, flag) ==
    [gpc |-> "done", flag |-> flag, phase |-> "none", hint |-> FALSE, result |-> res]

Reissue ==
    [gpc |-> "try", flag |-> "False", phase |-> "fallback", hint |-> FALSE,
     result |-> NoResult]

\* variant that keeps the hint in the request although the flag says False
BranchFor_KeepHint(flag) ==
    CASE flag = "None"  -> [phase |-> "first", hint |-> TRUE]
      [] flag = "True"  -> [phase |-> "supported", hint |-> TRUE]
      [] OTHER          -> [phase |-> "unsupported", hint |-> TRUE]

\* lines 164-179: the branch taken for the current value of the flag
BranchFor(flag) ==
    CASE flag = "None"  -> [phase |-> "first", hint |-> TRUE]
      [] flag = "True"  -> [phase |-> "supported", hint |-> TRUE]
      [] OTHER          -> [phase |-> "unsupported", hint |-> FALSE]

\* variant with the parsing inside the try block of lines 166-174, so that a
\* parse failure on the first call re-issues the request
AfterReturn_ParseInsideTry(ph, flag, out) ==
    LET flag2 == IF ph = "first" THEN "True" ELSE flag
        res   == IF out.ok THEN parse_llm_response(out.raw) ELSE Raised(NoneResponse)
    IN  IF ph = "first" /\ ~res.ok THEN Reissue ELSE Finish(res, flag2)

\* the helper returned: line 169 on the first call, then lines 181-182
AfterReturn(ph, flag, out) ==
    LET flag2 == IF ph = "first" THEN "True" ELSE flag
    IN  IF out.ok THEN Finish(parse_llm_response(out.raw), flag2)
        ELSE Finish(Raised(NoneResponse), flag2)

\* variant that falls back to a request without the hint whenever a hinted
\* request raised
AfterRaise_AlwaysReissue(ph, flag, e) ==
    IF ph \in {"first", "supported"} THEN Reissue
    ELSE Finish(Raised(IF e.cls = "ImportError" THEN NotInstalled ELSE e), flag)

\* the helper raised: lines 170-174 on the first call, otherwise the
\* exception leaves generate_course (an ImportError through lines 184-187)
AfterRaise(ph, flag, e) ==
    IF ph = "first" THEN Reissue
    ELSE Finish(Raised(IF e.cls = "ImportError" THEN NotInstalled ELSE e), flag)

GenInit ==
    /\ supports_json_format = "None"
    /\ gpc = "idle"
    /\ phase = "none"
    /\ hint = FALSE
    /\ attempt = 0
    /\ tries = 0
    /\ sleeps = <<>>
    /\ requests = <<>>
    /\ lastOut = NoOut
    /\ helperExc = NoExc
    /\ fallbackCause = NoExc
    /\ result = NoResult
    /\ reqAtParse = 0
    /\ calls = 0

\* the parameters of generate_course, lines 98-106
Signature ==
    {"topic", "num_pages", "language", "temperature", "max_tokens", "blocks_per_page",
     "questions_per_page", "detail_level", "system_prompt", "extra_instructions"}

\* the keyword arguments of the call in main.py (lines 164-168) and of the
\* call in bg_generate (web_app.py, lines 286-299)
CliKwargs == {"topic", "num_pages", "language"}
WebKwargs ==
    {"topic", "language", "num_modules", "sections_per_module", "scos_per_section",
     "screens_per_sco", "questions_per_sco", "final_test_questions", "detail_level",
     "temperature", "max_tokens", "progress_callback"}

UnexpectedKeyword ==
    [cls |-> "TypeError", status |-> 0,
     msg |-> "generate_course() got an unexpected keyword argument 'num_modules'"]

\* _build_prompt, lines 338-408: the one user prompt of a call asks for the
\* whole course, title and pages with their blocks
build_prompt == "whole course"

\* generate_course is entered with the keyword arguments kwargs; a keyword
\* that is no parameter raises TypeError before the body runs; otherwise
\* lines 125-179 up to the first request
StartGenerate(kwargs) ==
    /\ gpc \in {"idle", "done"}
    /\ calls < MaxCalls
    /\ calls' = calls + 1
    /\ requests' = <<>>
    /\ reqAtParse' = 0
    /\ lastOut' = NoOut
    /\ helperExc' = NoExc
    /\ attempt' = 0
    /\ tries' = 0
    /\ sleeps' = <<>>
    /\ IF ~(kwargs \subseteq Signature)
       THEN /\ gpc' = "done"
            /\ result' = Raised(UnexpectedKeyword)
            /\ phase' = "none"
            /\ hint' = FALSE
       ELSE IF ~has_key
       THEN /\ gpc' = "done"
            /\ result' = Raised(MissingKey)
            /\ phase' = "none"
            /\ hint' = FALSE
       ELSE /\ gpc' = "try"
            /\ result' = NoResult
            /\ phase' = BranchFor(supports_json_format).phase
            /\ hint' = BranchFor(supports_json_format).hint
    /\ UNCHANGED <<supports_json_format, fallbackCause, has_key, installed, webVars, buildVars,
                   docVars, slugVars>>

\* line 252, self.client: without the package the import of line 81 raises
\* before create is called, so the iteration issues no request
Issued(out) == out.ok \/ out.exc # ImportFailed

\* one iteration of the loop of _call_llm_with_retry: the request and the
\* except clause (lines 250-272)
Attempt(out) ==
    /\ gpc = "try"
    /\ out \in ServiceOutcomes(hint)
    /\ Issued(out) = installed
    /\ tries' = IF Issued(out) THEN tries + 1 ELSE tries
    /\ requests' = IF Issued(out)
                   THEN Append(requests, [hint |-> hint, flag |-> supports_json_format,
                                          prompt |-> build_prompt])
                   ELSE requests
    /\ lastOut' = out
    /\ IF out.ok
       THEN /\ gpc' = "returned"
            /\ UNCHANGED <<sleeps, helperExc>>
       ELSE IF ShouldRetry(out.exc, attempt)
            THEN /\ gpc' = "sleep"
                 /\ sleeps' = Append(sleeps, Backoff(attempt))
                 /\ UNCHANGED helperExc
            ELSE /\ gpc' = "raised"
                 /\ helperExc' = out.exc
                 /\ UNCHANGED sleeps
    /\ UNCHANGED <<supports_json_format, phase, hint, attempt, fallbackCause,
                   result, reqAtParse, calls, has_key, installed, cacheVars, webVars,
                   buildVars, docVars,
                   slugVars>>

\* time.sleep(wait) returns and the loop goes on (line 270, then line 250);
\* a loop that runs out falls off the end of the function and returns None
Sleep ==
    /\ gpc = "sleep"
    /\ attempt' = attempt + 1
    /\ gpc' = IF attempt + 1 < max_retries THEN "try" ELSE "returned"
    /\ UNCHANGED <<supports_json_format, phase, hint, tries, sleeps, requests,
                   lastOut, helperExc, fallbackCause, result, reqAtParse, calls,
                   has_key, installed, cacheVars, webVars, buildVars, docVars, slugVars>>

Continue(next) ==
    /\ gpc' = next.gpc
    /\ supports_json_format' = next.flag
    /\ phase' = next.phase
    /\ hint' = next.hint
    /\ IF next.gpc = "done"
       THEN /\ result' = next.result
            /\ UNCHANGED <<attempt, tries, sleeps>>
       ELSE /\ attempt' = 0
            /\ tries' = 0
            /\ sleeps' = <<>>
            /\ UNCHANGED result

\* generate_course goes on after the helper returned a response
OnReturn ==
    /\ gpc = "returned"
    /\ Continue(AfterReturn(phase, supports_json_format, lastOut))
    /\ reqAtParse' = Len(requests)
    /\ UNCHANGED <<requests, lastOut, helperExc, fallbackCause, calls, has_key, installed,
                   cacheVars, webVars, buildVars, docVars, slugVars>>

\* generate_course goes on after the helper raised
OnRaise ==
    /\ gpc = "raised"
    /\ Continue(AfterRaise(phase, supports_json_format, helperExc))
    /\ fallbackCause' = IF phase = "first" THEN helperExc ELSE fallbackCause
    /\ helperExc' = NoExc
    /\ UNCHANGED <<requests, lastOut, reqAtParse, calls, has_key, installed, cacheVars,
                   webVars, buildVars, docVars, slugVars>>

(***************************************************************************)
(* generate_course_cached                                                  *)
(***************************************************************************)
DEFAULT_NUM_PAGES == 3
DEFAULT_COURSE_LANGUAGE == "ru"

\* the arguments of a call; num_pages 0 and language "" stand for None
CacheParams ==
    { [topic |-> "Python", num_pages |-> 0, language |-> "", kwargs |-> EmptyDict],
      [topic |-> "Python", num_pages |-> 3, language |-> "ru", kwargs |-> EmptyDict],
      [topic |-> "Python", num_pages |-> 3, language |-> "en", kwargs |-> EmptyDict] }

\* _cache_key, lines 327-331, on the values of lines 196-197: the signature
\* string, as the tuple of its parts (the digest of the string is taken to
\* be free of collisions)
cache_key(p) ==
    <<p.topic,
      IF p.num_pages = 0 THEN DEFAULT_NUM_PAGES ELSE p.num_pages,
      IF p.language = "" THEN DEFAULT_COURSE_LANGUAGE ELSE p.language,
      p.kwargs>>

MemberOf(k, v) ==
    CASE k = "title" -> TitleMember
      [] v = "[]" -> PagesMember
      [] OTHER -> PagesScalar

\* json.dump of a document, as the text that json_loads reads
json_dumps(d) ==
    LET title == IF "title" \in DOMAIN d THEN <<MemberOf("title", d["title"])>> ELSE <<>>
        pages == IF "pages" \in DOMAIN d THEN <<MemberOf("pages", d["pages"])>> ELSE <<>>
        comma == IF title # <<>> /\ pages # <<>> THEN <<",">> ELSE <<>>
    IN  <<"{">> \o title \o comma \o pages \o <<"}">>

EmptyCache == [k \in {} |-> <<>>]

\* a cache file left by an earlier run of the program; the file is read
\* without any validation
EarlierCache ==
    [k \in {<<"Python", 3, "ru", EmptyDict>>} |->
        <<"{", TitleMember, "}">>]

NoKey == <<"", 0, "", EmptyDict>>

\* what a call of generate_course_cached gave its caller: a value of some
\* kind ("dict", "int"), or an exception
Returned(kind, d) == [ok |-> TRUE, kind |-> kind, data |-> d, exc |-> NoExc]
Escaped(e)        == [ok |-> FALSE, kind |-> "none", data |-> EmptyDict, exc |-> e]
NoCall            == Escaped(NoExc)

CacheInit ==
    /\ cache = EmptyCache
    /\ cpc = "idle"
    /\ ckey = NoKey
    /\ cresult = NoCall

\* line 202: the cache file of the key exists
CachedLookup(key) == key \in DOMAIN cache

\* line 205, json.load of the cache file: the value the text decodes to,
\* whatever its kind, or the JSONDecodeError of a text that is no JSON
CacheDecodeError ==
    [cls |-> "JSONDecodeError", status |-> 0, msg |-> "Expecting value"]

LoadCached(text) ==
    LET j == json_loads(text)
    IN  IF j.kind = "error" THEN Escaped(CacheDecodeError) ELSE Returned(j.kind, j.data)

\* generate_course_cached, lines 196-209: the value of the cache file is
\* returned (or json.load raises), or generate_course is entered with the
\* same arguments
GenerateCourseCached(p) ==
    /\ cpc # "generating"
    /\ gpc \in {"idle", "done"}
    /\ ckey' = cache_key(p)
    /\ IF CachedLookup(cache_key(p))
       THEN /\ cresult' = LoadCached(cache[cache_key(p)])
            /\ cpc' = IF LoadCached(cache[cache_key(p)]).ok THEN "hit" ELSE "unreadable"
            /\ UNCHANGED <<supports_json_format, gpc, phase, hint, attempt, tries, sleeps,
                           requests, lastOut, helperExc, fallbackCause, result,
                           reqAtParse, calls, has_key, installed, cache, webVars, buildVars,
                           docVars, slugVars>>
       ELSE /\ cpc' = "generating"
            /\ StartGenerate({"topic", "num_pages", "language"} \cup DOMAIN p.kwargs)
            /\ UNCHANGED <<cache, cresult>>

\* lines 212-215, the write of the cache file.  done: the with statement
\* ended without an exception.  Otherwise OSError leaves the call; file
\* tells whether open had created the file by then (os.makedirs or open
\* itself raised: no file), and len how much of the text had reached it.
WriteFailed == [cls |-> "OSError", status |-> 0, msg |-> "No space left on device"]

NoWrite == [done |-> FALSE, file |-> FALSE, len |-> 0]

CacheWrites(res) ==
    IF ~res.ok THEN {NoWrite}
    ELSE LET n == Len(json_dumps(res.data))
         IN  {[done |-> TRUE, file |-> TRUE, len |-> n], NoWrite}
                 \cup {[done |-> FALSE, file |-> TRUE, len |-> k] : k \in 0..n}

\* lines 207-217: what generate_course_cached does after generate_course.
\* An exception of generate_course leaves the call before line 212; after a
\* return the file is written in place at cache_path, w telling how far.
CacheAfter(res, w) ==
    IF ~res.ok
    THEN [cpc |-> "raised", cache |-> cache, out |-> Escaped(res.exc)]
    ELSE IF w.done
    THEN [cpc |-> "stored", cache |-> Put(cache, ckey, json_dumps(res.data)),
          out |-> Returned("dict", res.data)]
    ELSE [cpc |-> "unsaved",
          cache |-> IF w.file
                    THEN Put(cache, ckey, SubSeq(json_dumps(res.data), 1, w.len))
                    ELSE cache,
          out |-> Escaped(WriteFailed)]

\* generate_course returned or raised inside generate_course_cached
CachedReturn(w) ==
    /\ cpc = "generating"
    /\ gpc = "done"
    /\ w \in CacheWrites(result)
    /\ cpc' = CacheAfter(result, w).cpc
    /\ cache' = CacheAfter(result, w).cache
    /\ cresult' = CacheAfter(result, w).out
    /\ UNCHANGED <<supports_json_format, gpc, phase, hint, attempt, tries, sleeps,
                   requests, lastOut, helperExc, fallbackCause, result, reqAtParse, calls,
                   has_key, installed, ckey, webVars, buildVars, docVars, slugVars>>

\* generate_course called directly, not through generate_course_cached
GenerateCourse(kwargs) ==
    /\ cpc # "generating"
    /\ StartGenerate(kwargs)
    /\ cpc' = "idle"
    /\ ckey' = NoKey
    /\ cresult' = NoCall
    /\ UNCHANGED cache

GenNext ==
    \/ \E kwargs \in {CliKwargs, WebKwargs} : GenerateCourse(kwargs)
    \/ \E out \in ServiceOutcomes(TRUE) : Attempt(out)
    \/ Sleep
    \/ OnReturn
    \/ OnRaise
    \/ \E p \in CacheParams : GenerateCourseCached(p)
    \/ \E w \in CacheWrites(result) : CachedReturn(w)

(***************************************************************************)
(* web_app.py: POST /api/generate and its background thread                *)
(***************************************************************************)
Requests == 1..NumRequests

\* a message, by the marker it holds and its length in characters
Message(text, len) == [text |-> text, len |-> len]

NoError == Message("None", 0)

\* courses are held by origin: the run that produced them, or the request
\* body of /api/generate-from-json or /api/update-course
UploadedCourse == NumRequests + 1
EditedCourse   == NumRequests + 2

\* a response of GET /api/generate-status; course 0 is None
StatusResponse(ok, error, c) ==
    [sent |-> TRUE, ok |-> ok, error |-> error, course |-> c]

\* no response has been returned to the status request
NoResponse == [sent |-> FALSE, ok |-> FALSE, error |-> NoError, course |-> 0]

WebInit ==
    /\ generating = FALSE
    /\ progress_pct = 0
    /\ last_error = NoError
    /\ last_course_json = 0
    /\ last_scorm_path = 0
    /\ hpc = [r \in Requests |-> "new"]
    /\ wresp = [r \in Requests |-> "none"]
    /\ thread = [r \in Requests |-> "none"]
    /\ latest = 0
    /\ spc = "idle"
    /\ sresp = NoResponse
    /\ upc = "idle"
    /\ bcourse = 0

\* lines 243-244: the handler reads the in-flight flag
GenerateCheck(r) ==
    /\ hpc[r] = "new"
    /\ IF generating
       THEN /\ hpc' = [hpc EXCEPT ![r] = "done"]
            /\ wresp' = [wresp EXCEPT ![r] = "already running"]
       ELSE /\ hpc' = [hpc EXCEPT ![r] = "checked"]
            /\ UNCHANGED wresp
    /\ UNCHANGED <<generating, progress_pct, last_error, last_course_json, last_scorm_path,
                   thread, latest, statusVars, packVars, genVars, buildVars, docVars,
                   slugVars>>

\* lines 246-314: the request body is read and its numbers converted (int()
\* and float() raise ValueError on a text that is no number, before the topic
\* is tested); with a topic the flag is set and the worker thread is started
GenerateStart(r, topic, numbers) ==
    /\ hpc[r] = "checked"
    /\ IF ~numbers
       THEN /\ hpc' = [hpc EXCEPT ![r] = "done"]
            /\ wresp' = [wresp EXCEPT ![r] = "ValueError"]
            /\ UNCHANGED <<generating, progress_pct, last_error, thread, latest>>
       ELSE IF topic = ""
       THEN /\ hpc' = [hpc EXCEPT ![r] = "done"]
            /\ wresp' = [wresp EXCEPT ![r] = "no topic"]
            /\ UNCHANGED <<generating, progress_pct, last_error, thread, latest>>
       ELSE /\ hpc' = [hpc EXCEPT ![r] = "started"]
            /\ generating' = TRUE
            /\ progress_pct' = 0
            /\ last_error' = NoError
            /\ thread' = [thread EXCEPT ![r] = "running"]
            /\ latest' = r
            /\ UNCHANGED wresp
    /\ UNCHANGED <<last_course_json, last_scorm_path, statusVars, packVars, genVars,
                   buildVars, docVars, slugVars>>

\* line 316: the response is built once the thread has been started; the
\* worker may have acted by then
GenerateRespond(r) ==
    /\ hpc[r] = "started"
    /\ hpc' = [hpc EXCEPT ![r] = "done"]
    /\ wresp' = [wresp EXCEPT ![r] = "started"]
    /\ UNCHANGED <<generating, progress_pct, last_error, last_course_json, last_scorm_path,
                   thread, latest, statusVars, packVars, genVars, buildVars, docVars,
                   slugVars>>

ERROR_LIMIT == 300

\* str(e) of what the except clause of line 304 catches, one text of each
\* kind that lines 305-308 tell apart: the TypeError of the call of line 285
\* (generate_course of llm_generator.py does not take num_modules), a text
\* holding "insufficient_quota", a text holding "Connection", an exception
\* without a message, and a message of more than ERROR_LIMIT characters
ErrorTexts ==
    { Message("unexpected keyword argument", 85),
      Message("insufficient_quota", 120),
      Message("Connection", 17),
      Message("", 0),
      Message("long", ERROR_LIMIT + 1) }

\* lines 306-307
DisplayError(err) ==
    IF err.text = "insufficient_quota" THEN Message("quota exhausted", 41)
    ELSE IF err.text = "Connection" THEN Message("cannot connect", 38)
    ELSE err

Min2(a, b) == IF a <= b THEN a ELSE b

\* variant that records the whole message
Truncate_Whole(m, limit) == m

\* m[:limit]
Truncate(m, limit) == Message(m.text, Min2(m.len, limit))

\* the ways the try block of lines 274-299 can end.  The call of line 285
\* passes WebKwargs to generate_course of llm_generator.py, which returns a
\* course only if it takes every one of them; it does not take num_modules
\* and the others of the staged generator, so no run returns a course.
RunOutcomes ==
    (IF WebKwargs \subseteq Signature THEN {[ok |-> TRUE, err |-> NoError]} ELSE {})
        \cup {[ok |-> FALSE, err |-> m] : m \in ErrorTexts}

\* bg_generate, lines 274-308: lines 301-303 after a call that returned, the
\* except clause of lines 304-308 after an exception
BgGenerate(r, out) ==
    /\ thread[r] = "running"
    /\ thread' = [thread EXCEPT ![r] = IF out.ok THEN "returned" ELSE "raised"]
    /\ IF out.ok
       THEN /\ last_course_json' = r
            /\ progress_pct' = 100
            /\ UNCHANGED last_error
       ELSE /\ last_error' = Truncate(DisplayError(out.err), ERROR_LIMIT)
            /\ UNCHANGED <<last_course_json, progress_pct>>
    /\ UNCHANGED <<generating, last_scorm_path, hpc, wresp, latest, statusVars, packVars,
                   genVars, buildVars, docVars, slugVars>>

\* bg_generate, lines 309-310
BgFinally(r) ==
    /\ thread[r] \in {"returned", "raised"}
    /\ thread' = [thread EXCEPT ![r] = "finished"]
    /\ generating' = FALSE
    /\ UNCHANGED <<progress_pct, last_error, last_course_json, last_scorm_path, hpc, wresp,
                   latest, statusVars, packVars, genVars, buildVars, docVars, slugVars>>

\* a value is truthy: a message that is neither None nor empty
Truthy(m) == m # NoError /\ m.len > 0

\* generate_status, line 321: the recorded error is read and tested
StatusError ==
    /\ spc = "idle"
    /\ spc' = IF Truthy(last_error) THEN "error" ELSE "flag"
    /\ sresp' = NoResponse
    /\ UNCHANGED <<generating, progress_pct, last_error, last_course_json, last_scorm_path,
                   hpc, wresp, thread, latest, packVars, genVars, buildVars, docVars,
                   slugVars>>

\* line 322: the recorded error is read again, for the response
StatusErrorBody ==
    /\ spc = "error"
    /\ spc' = "idle"
    /\ sresp' = StatusResponse(FALSE, last_error, 0)
    /\ UNCHANGED <<generating, progress_pct, last_error, last_course_json, last_scorm_path,
                   hpc, wresp, thread, latest, packVars, genVars, buildVars, docVars,
                   slugVars>>

\* variant that returns the stored course whatever the progress is
StatusCourseExpr_AnyProgress ==
    /\ spc \in {"flag", "pct", "course"}
    /\ CASE spc = "flag" ->
              IF generating
              THEN spc' = "idle" /\ sresp' = StatusResponse(TRUE, NoError, 0)
              ELSE spc' = "pct" /\ UNCHANGED sresp
         [] spc = "pct" ->
              spc' = "course" /\ UNCHANGED sresp
         [] OTHER ->
              spc' = "idle" /\ sresp' = StatusResponse(TRUE, NoError, last_course_json)
    /\ UNCHANGED <<generating, progress_pct, last_error, last_course_json, last_scorm_path,
                   hpc, wresp, thread, latest, packVars, genVars, buildVars, docVars,
                   slugVars>>

\* line 329, the course of the response, one read of _state per step: the
\* flag is read, and a set flag gives None; then the progress is read, and
\* a progress other than 100 gives None; then the stored course is read and
\* returned.  (The progress is 100 only after line 303 or through prog_cb,
\* which need a generator call that gets past its keyword arguments.)
StatusCourseExpr ==
    /\ spc \in {"flag", "pct", "course"}
    /\ CASE spc = "flag" ->
              IF generating
              THEN spc' = "idle" /\ sresp' = StatusResponse(TRUE, NoError, 0)
              ELSE spc' = "pct" /\ UNCHANGED sresp
         [] spc = "pct" ->
              IF progress_pct = 100
              THEN spc' = "course" /\ UNCHANGED sresp
              ELSE spc' = "idle" /\ sresp' = StatusResponse(TRUE, NoError, 0)
         [] OTHER ->
              spc' = "idle" /\ sresp' = StatusResponse(TRUE, NoError, last_course_json)
    /\ UNCHANGED <<generating, progress_pct, last_error, last_course_json, last_scorm_path,
                   hpc, wresp, thread, latest, packVars, genVars, buildVars, docVars,
                   slugVars>>

\* generate_from_json, lines 333-342; c = 0 is a body without a course
GenerateFromJson(c) ==
    /\ last_course_json' = IF c = 0 THEN last_course_json ELSE c
    /\ UNCHANGED <<generating, progress_pct, last_error, last_scorm_path, hpc, wresp, thread,
                   latest, statusVars, packVars, genVars, buildVars, docVars, slugVars>>

\* build_scorm, lines 352-354: the stored course is read; without one the
\* handler answers with an error
BuildScorm ==
    /\ bcourse = 0
    /\ bcourse' = last_course_json
    /\ UNCHANGED <<generating, progress_pct, last_error, last_course_json, last_scorm_path,
                   hpc, wresp, thread, latest, statusVars, upc, genVars, buildVars, docVars,
                   slugVars>>

\* build_scorm, lines 356-366: SCORMBuilder.build returns the path of the
\* archive of the course that was read, which is stored, or raises
BuildScormStore(built) ==
    /\ bcourse # 0
    /\ bcourse' = 0
    /\ last_scorm_path' = IF built THEN bcourse ELSE last_scorm_path
    /\ UNCHANGED <<generating, progress_pct, last_error, last_course_json, hpc, wresp,
                   thread, latest, statusVars, upc, genVars, buildVars, docVars, slugVars>>

\* the ways the call of line 455 can end: llm_generator.py defines no
\* validate_course_json, so the attribute lookup raises AttributeError; the
\* validator the handler is written for returns defects or none
ValidatorCalls == {"AttributeError", "defects", "clean"}

\* update_course, lines 448-459: a body without a course is refused; the
\* validator call raises or returns defects and nothing is stored; a course
\* without defects is stored
UpdateCourse(c, v) ==
    /\ upc = "idle"
    /\ IF c # 0 /\ v = "clean"
       THEN /\ last_course_json' = c
            /\ upc' = "building"
       ELSE UNCHANGED <<last_course_json, upc>>
    /\ UNCHANGED <<generating, progress_pct, last_error, last_scorm_path, hpc, wresp, thread,
                   latest, statusVars, bcourse, genVars, buildVars, docVars, slugVars>>

\* update_course, lines 462-470: SCORMBuilder.build returns the path of the
\* archive of the edited course, which is stored, or raises
UpdateCourseStore(built) ==
    /\ upc = "building"
    /\ upc' = "idle"
    /\ last_scorm_path' = IF built THEN EditedCourse ELSE last_scorm_path
    /\ UNCHANGED <<generating, progress_pct, last_error, last_course_json, hpc, wresp,
                   thread, latest, statusVars, bcourse, genVars, buildVars, docVars,
                   slugVars>>

WebNext ==
    \/ \E r \in Requests : GenerateCheck(r)
    \/ \E r \in Requests, topic \in {"", "topic"}, numbers \in BOOLEAN :
          GenerateStart(r, topic, numbers)
    \/ \E r \in Requests : GenerateRespond(r)
    \/ \E r \in Requests, out \in RunOutcomes : BgGenerate(r, out)
    \/ \E r \in Requests : BgFinally(r)
    \/ StatusError
    \/ StatusErrorBody
    \/ StatusCourseExpr
    \/ \E c \in {0, UploadedCourse} : GenerateFromJson(c)
    \/ BuildScorm
    \/ \E built \in BOOLEAN : BuildScormStore(built)
    \/ \E c \in {0, EditedCourse}, v \in ValidatorCalls : UpdateCourse(c, v)
    \/ \E built \in BOOLEAN : UpdateCourseStore(built)

(***************************************************************************)
(* scorm_builder.py: course documents                                      *)
(***************************************************************************)
\* dict.get(key, default)
Get(d, k, default) == IF k \in DOMAIN d THEN d[k] ELSE default

Question == [type |-> "truefalse", title |-> "Q", body |-> "B", correct_answer |-> TRUE]

Sco == [title |-> "U"]

Min(a, b) == IF a < b THEN a ELSE b

SectionOf(k) == [title |-> "S", scos |-> [i \in 1..k |-> Sco]]

\* the sequences of at most len sections, of at most MaxScos units each,
\* that have at most budget nodes (sections and units)
RECURSIVE SectionSeqs(_, _)
SectionSeqs(len, budget) ==
    IF len = 0 \/ budget <= 0 THEN {<<>>}
    ELSE {<<>>}
           \cup UNION {{<<SectionOf(k)>> \o rest :
                            rest \in SectionSeqs(len - 1, budget - 1 - k)} :
                          k \in 0..Min(MaxScos, budget - 1)}

RECURSIVE NodesOfSections(_)
NodesOfSections(ss) ==
    IF ss = <<>> THEN 0
    ELSE 1 + Len(Head(ss).scos) + NodesOfSections(Tail(ss))

ModuleOf(ss) == [title |-> "M", sections |-> ss]

\* the sequences of at most len modules that have at most budget nodes
\* (modules, sections and units)
RECURSIVE ModuleSeqs(_, _)
ModuleSeqs(len, budget) ==
    IF len = 0 \/ budget <= 0 THEN {<<>>}
    ELSE {<<>>}
           \cup UNION {{<<ModuleOf(ss)>> \o rest :
                            rest \in ModuleSeqs(len - 1, budget - 1 - NodesOfSections(ss))} :
                          ss \in SectionSeqs(MaxSections, budget - 1)}

\* module lists whose entries leave out the keys that build reads with .get
SparseModuleSeqs ==
    { <<[title |-> "M"]>>,
      <<[sections |-> <<[title |-> "S"]>>]>>,
      <<[title |-> "M", sections |-> <<[scos |-> <<[screens |-> <<>>]>>]>>]>> }

FinalTests == {<<>>, <<Question>>}

HierarchicalDocs ==
    LET mss == ModuleSeqs(MaxModules, MaxNodes) \cup SparseModuleSeqs
    IN  {[title |-> "T", modules |-> ms] : ms \in mss}
          \cup {[title |-> "T", modules |-> ms, final_test |-> ft] :
                   ms \in mss, ft \in FinalTests}

\* documents that _validate_course rejects
RejectedDocs ==
    { [modules |-> <<>>],
      [title |-> "T"],
      [title |-> "T", pages |-> <<>>] }

TextBlock == [type |-> "text", title |-> "X", body |-> "Y"]

McqBlock ==
    [type |-> "mcq", title |-> "Q", body |-> "?",
     options |-> <<[text |-> "A", correct |-> TRUE], [text |-> "B", correct |-> FALSE]>>]

\* the one-unit document with an introductory screen and one question
ScenarioDoc ==
    [title |-> "T",
     modules |-> <<[title |-> "M1",
                    sections |-> <<[title |-> "S1",
                                    scos |-> <<[title |-> "U1",
                                                screens |-> <<[title |-> "Intro",
                                                               blocks |-> <<TextBlock>>]>>,
                                                knowledge_check |-> <<Question>>]>>]>>]>>]

\* page-list documents: a title and pages, no modules
LegacyDocs ==
    { [title |-> "T", pages |-> <<[title |-> "P", blocks |-> <<TextBlock, McqBlock>>]>>],
      [title |-> "T", description |-> "D", language |-> "ru",
       pages |-> <<[title |-> "P", blocks |-> <<TextBlock>>], [title |-> "P2"]>>] }

\* documents with a settings object, with and without passing_score
SettingsDocs ==
    LET mss == { <<>>, <<ModuleOf(<<SectionOf(1)>>)>>, <<ModuleOf(<<SectionOf(2)>>)>> }
        sts == { [passing_score |-> 70], [passing_score |-> 100, max_attempts |-> 3],
                 [max_attempts |-> 3], EmptyDict }
    IN  {[title |-> "T", settings |-> st, modules |-> ms, final_test |-> ft] :
            st \in sts, ms \in mss, ft \in FinalTests}

\* isdict tells a dict from any other value given as the course argument
CourseArgs ==
    {[isdict |-> TRUE, d |-> c] :
        c \in HierarchicalDocs \cup RejectedDocs \cup LegacyDocs
                \cup SettingsDocs \cup {ScenarioDoc}}
        \cup {[isdict |-> FALSE, d |-> EmptyDict]}

(***************************************************************************)
(* scorm_builder.py: build                                                 *)
(***************************************************************************)
Digit(n) ==
    CASE n = 0 -> "0" [] n = 1 -> "1" [] n = 2 -> "2" [] n = 3 -> "3" [] n = 4 -> "4"
      [] n = 5 -> "5" [] n = 6 -> "6" [] n = 7 -> "7" [] n = 8 -> "8" [] OTHER -> "9"

\* str(n) of a non-negative integer, as the f-strings format it
RECURSIVE ToStr(_)
ToStr(n) == IF n < 10 THEN Digit(n) ELSE ToStr(n \div 10) \o Digit(n % 10)

\* variant that leaves the unit index out of the file name
ScoFilename_NoUnit(m_idx, s_idx, u_idx) ==
    "sco_" \o ToStr(m_idx) \o "_" \o ToStr(s_idx) \o ".html"

\* line 77
ScoFilename(m_idx, s_idx, u_idx) ==
    "sco_" \o ToStr(m_idx) \o "_" \o ToStr(s_idx) \o "_" \o ToStr(u_idx) \o ".html"

ItemId(k) == "ITEM_" \o ToStr(k)
ResId(k)  == "RES_" \o ToStr(k)

\* files[name] = content on a dict that keeps insertion order
DictSet(fs, name, content) ==
    IF \E i \in 1..Len(fs) : fs[i].name = name
    THEN [i \in 1..Len(fs) |-> IF fs[i].name = name
                               THEN [name |-> name, content |-> content] ELSE fs[i]]
    ELSE Append(fs, [name |-> name, content |-> content])

Names(fs) == {fs[i].name : i \in 1..Len(fs)}

\* _validate_course, lines 129-136: "" when the course is accepted
ValidateCourse(arg) ==
    IF ~arg.isdict THEN "course must be a dict"
    ELSE IF "title" \notin DOMAIN arg.d THEN "course must have field 'title'"
    ELSE IF "modules" \notin DOMAIN arg.d THEN "course must have array 'modules'"
    ELSE ""

\* lines 75-89: the loop over the units of one section.  acc carries
\* sco_index, files, resources and the scos list of the section.
RECURSIVE ScoLoop(_, _, _, _, _)
ScoLoop(acc, m_idx, s_idx, scos, u_idx) ==
    IF u_idx >= Len(scos) THEN acc
    ELSE LET sco      == scos[u_idx + 1]
             k        == acc.sco_index + 1
             filename == ScoFilename(m_idx, s_idx, u_idx)
         IN  ScoLoop([acc EXCEPT
                        !.sco_index = k,
                        !.files = DictSet(acc.files, filename, "html"),
                        !.scos = Append(acc.scos,
                                    [id |-> ItemId(k), res_id |-> ResId(k),
                                     title |-> Get(sco, "title", "Unit " \o ToStr(k))]),
                        !.resources = Append(acc.resources,
                                    [res_id |-> ResId(k), href |-> filename])],
                     m_idx, s_idx, scos, u_idx + 1)

\* lines 73-90: the loop over the sections of one module
RECURSIVE SectionLoop(_, _, _, _)
SectionLoop(acc, m_idx, sections, s_idx) ==
    IF s_idx >= Len(sections) THEN acc
    ELSE LET sec   == sections[s_idx + 1]
             after == ScoLoop([acc EXCEPT !.scos = <<>>], m_idx, s_idx,
                              Get(sec, "scos", <<>>), 0)
             sec_data == [title |-> Get(sec, "title", "Section " \o ToStr(s_idx + 1)),
                          scos |-> after.scos]
         IN  SectionLoop([after EXCEPT !.sections = Append(acc.sections, sec_data)],
                         m_idx, sections, s_idx + 1)

\* lines 71-91: the loop over the modules
RECURSIVE ModuleLoop(_, _, _)
ModuleLoop(acc, modules, m_idx) ==
    IF m_idx >= Len(modules) THEN acc
    ELSE LET mod   == modules[m_idx + 1]
             after == SectionLoop([acc EXCEPT !.sections = <<>>], m_idx,
                                  Get(mod, "sections", <<>>), 0)
             mod_data == [title |-> Get(mod, "title", "Module " \o ToStr(m_idx + 1)),
                          sections |-> after.sections]
         IN  ModuleLoop([after EXCEPT !.tree = Append(acc.tree, mod_data)],
                        modules, m_idx + 1)

\* variant that adds the final test whenever the key is present
FinalTestStep_WhenKeyPresent(acc, c) ==
    IF "final_test" \notin DOMAIN c THEN acc
    ELSE LET k == acc.sco_index + 1
         IN  [acc EXCEPT
                !.sco_index = k,
                !.files = DictSet(acc.files, "final_test.html", "html"),
                !.tree = Append(acc.tree,
                            [title |-> "Final test", is_final |-> TRUE,
                             id |-> ItemId(k), res_id |-> ResId(k)]),
                !.resources = Append(acc.resources,
                            [res_id |-> ResId(k), href |-> "final_test.html"])]

\* lines 93-110: the final test, when the list is not empty
FinalTestStep(acc, c) ==
    IF Get(c, "final_test", <<>>) = <<>> THEN acc
    ELSE LET k == acc.sco_index + 1
         IN  [acc EXCEPT
                !.sco_index = k,
                !.files = DictSet(acc.files, "final_test.html", "html"),
                !.tree = Append(acc.tree,
                            [title |-> "Final test", is_final |-> TRUE,
                             id |-> ItemId(k), res_id |-> ResId(k)]),
                !.resources = Append(acc.resources,
                            [res_id |-> ResId(k), href |-> "final_test.html"])]

\* lines 57-110
Compile(c) ==
    LET start == [sco_index |-> 0,
                  files |-> <<[name |-> "style.css", content |-> "css"],
                              [name |-> "scorm_api.js", content |-> "js"]>>,
                  resources |-> <<>>, tree |-> <<>>, sections |-> <<>>, scos |-> <<>>]
    IN  FinalTestStep(ModuleLoop(start, Get(c, "modules", <<>>), 0), c)

(***************************************************************************)
(* scorm_builder.py: _generate_manifest                                    *)
(***************************************************************************)
SCORM_MASTERY_SCORE == 80

MasteryVal(c) ==
    ToStr(Get(Get(c, "settings", EmptyDict), "passing_score", SCORM_MASTERY_SCORE))

\* variant whose unit items refer to their own identifier
ScoItem_RefItemId(sco, mastery_val) ==
    [identifier |-> sco.id, identifierref |-> sco.id, title |-> sco.title,
     masteryscore |-> mastery_val, children |-> <<>>]

\* lines 230-240
ScoItem(sco, mastery_val) ==
    [identifier |-> sco.id, identifierref |-> sco.res_id, title |-> sco.title,
     masteryscore |-> mastery_val, children |-> <<>>]

\* variant that numbers the sections without the module they belong to
SectionItem_NoModulePrefix(m_idx, s_idx, sec, mastery_val) ==
    [identifier |-> "SEC_" \o ToStr(s_idx),
     title |-> sec.title,
     children |-> [i \in 1..Len(Get(sec, "scos", <<>>)) |->
                      ScoItem(sec.scos[i], mastery_val)]]

\* lines 222-240
SectionItem(m_idx, s_idx, sec, mastery_val) ==
    [identifier |-> "MOD_" \o ToStr(m_idx) \o "_SEC_" \o ToStr(s_idx),
     title |-> sec.title,
     children |-> [i \in 1..Len(Get(sec, "scos", <<>>)) |->
                      ScoItem(sec.scos[i], mastery_val)]]

\* lines 202-240: one child of the organization element per entry of org_tree
OrgItem(m_idx, mod, mastery_val) ==
    IF Get(mod, "is_final", FALSE)
    THEN [identifier |-> mod.id, identifierref |-> mod.res_id, title |-> mod.title,
          masteryscore |-> mastery_val, children |-> <<>>]
    ELSE [identifier |-> "MOD_" \o ToStr(m_idx),
          title |-> mod.title,
          children |-> [i \in 1..Len(Get(mod, "sections", <<>>)) |->
                           SectionItem(m_idx, i - 1, mod.sections[i], mastery_val)]]

\* variant that derives the href from the resource identifier
ResourceElement_HrefFromId(res) ==
    [identifier |-> res.res_id, type |-> "webcontent", scormtype |-> "sco",
     href |-> res.res_id \o ".html",
     files |-> <<res.res_id \o ".html", "style.css", "scorm_api.js">>]

\* lines 244-257
ResourceElement(res) ==
    [identifier |-> res.res_id, type |-> "webcontent", scormtype |-> "sco",
     href |-> res.href,
     files |-> <<res.href, "style.css", "scorm_api.js">>]

generate_manifest(c, org_tree, res) ==
    [org_title |-> Get(c, "title", "Untitled Course"),
     items |-> [i \in 1..Len(org_tree) |-> OrgItem(i - 1, org_tree[i], MasteryVal(c))],
     resources |-> [i \in 1..Len(res) |-> ResourceElement(res[i])]]

NoManifest == [org_title |-> "", items |-> <<>>, resources |-> <<>>]

(***************************************************************************)
(* scorm_builder.py: the build call and _create_zip                        *)
(***************************************************************************)
\* the file at output_path.  entries: the names the archive lists, in
\* order; empty: the listed names whose content is missing or cut short;
\* closed: no writer holds the file; readable: the file ends with the
\* directory of an archive, so that a reader can open it
NoFile    == [exists |-> FALSE, by |-> "none", entries |-> <<>>, empty |-> {},
              closed |-> FALSE, readable |-> FALSE]
OldArchive == [exists |-> TRUE, by |-> "earlier", closed |-> TRUE, readable |-> TRUE,
               entries |-> <<"style.css", "scorm_api.js", "imsmanifest.xml">>,
               empty |-> {}]

NoCourse == [isdict |-> FALSE, d |-> EmptyDict]

BuildInit ==
    /\ course = NoCourse
    /\ bpc = "idle"
    /\ files = <<>>
    /\ resources = <<>>
    /\ organizations_tree = <<>>
    /\ manifest = NoManifest
    /\ zipped = 0
    /\ disk = NoFile

\* variant that opens the archive at output_path before the pages are rendered
Build_ZipBeforeRender(arg, renderFails) ==
    /\ bpc = "idle"
    /\ course' = arg
    /\ zipped' = 0
    /\ IF ValidateCourse(arg) # ""
       THEN /\ bpc' = "rejected"
            /\ UNCHANGED <<files, resources, organizations_tree, manifest, disk>>
       ELSE IF renderFails
       THEN /\ bpc' = "failed"
            /\ disk' = [exists |-> TRUE, by |-> "build", entries |-> <<>>, empty |-> {},
                        closed |-> TRUE, readable |-> TRUE]
            /\ UNCHANGED <<files, resources, organizations_tree, manifest>>
       ELSE LET out == Compile(arg.d)
                mf  == generate_manifest(arg.d, out.tree, out.resources)
            IN  /\ bpc' = "zip"
                /\ resources' = out.resources
                /\ organizations_tree' = out.tree
                /\ manifest' = mf
                /\ files' = DictSet(out.files, "imsmanifest.xml", "manifest")
                /\ UNCHANGED disk
    /\ UNCHANGED <<genVars, webVars, docVars, slugVars>>

\* build, lines 47-114: validation, the static files, one rendered page per
\* unit and for the final test, and the manifest.  renderFails tells whether
\* the template renderer (or the reading of a static file) raises.
Build(arg, renderFails) ==
    /\ bpc = "idle"
    /\ course' = arg
    /\ zipped' = 0
    /\ IF ValidateCourse(arg) # ""
       THEN /\ bpc' = "rejected"
            /\ UNCHANGED <<files, resources, organizations_tree, manifest>>
       ELSE IF renderFails
       THEN /\ bpc' = "failed"
            /\ UNCHANGED <<files, resources, organizations_tree, manifest>>
       ELSE LET out == Compile(arg.d)
                mf  == generate_manifest(arg.d, out.tree, out.resources)
            IN  /\ bpc' = "zip"
                /\ resources' = out.resources
                /\ organizations_tree' = out.tree
                /\ manifest' = mf
                /\ files' = DictSet(out.files, "imsmanifest.xml", "manifest")
    /\ UNCHANGED <<disk, genVars, webVars, docVars, slugVars>>

\* _create_zip, lines 281-282: the directory of output_path is made and the
\* archive is opened for writing, which creates the file or truncates the
\* one that is there; when os.makedirs or the opening raises, the path is
\* left as it was and the exception leaves build
ZipOpen(ok) ==
    /\ bpc = "zip"
    /\ IF ok
       THEN /\ bpc' = "writing"
            /\ disk' = [exists |-> TRUE, by |-> "build", entries |-> <<>>, empty |-> {},
                        closed |-> FALSE, readable |-> FALSE]
       ELSE /\ bpc' = "failed"
            /\ UNCHANGED disk
    /\ UNCHANGED <<course, files, resources, organizations_tree, manifest, zipped,
                   genVars, webVars, docVars, slugVars>>

\* what one zf.writestr can do: write the entry; raise before anything of
\* the entry is recorded ("dropped"); raise after the entry was entered in
\* the archive's list, its content missing ("listed"); and, when the close
\* of the with statement raises as well, leave a file without the directory
\* of an archive ("broken")
WriteOutcomes == {"written", "dropped", "listed", "broken"}

\* _create_zip, lines 283-284: one zf.writestr; when it raises, the with
\* statement closes the archive and the exception leaves build
ZipWrite(out) ==
    /\ bpc = "writing"
    /\ zipped < Len(files)
    /\ out \in WriteOutcomes
    /\ IF out = "written"
       THEN /\ zipped' = zipped + 1
            /\ disk' = [disk EXCEPT !.entries = Append(@, files[zipped + 1].name)]
            /\ UNCHANGED bpc
       ELSE /\ bpc' = "failed"
            /\ disk' = CASE out = "dropped" ->
                              [disk EXCEPT !.closed = TRUE, !.readable = TRUE]
                         [] out = "listed" ->
                              [disk EXCEPT !.closed = TRUE, !.readable = TRUE,
                                           !.entries = Append(@, files[zipped + 1].name),
                                           !.empty = @ \cup {files[zipped + 1].name}]
                         [] OTHER ->
                              [disk EXCEPT !.closed = TRUE, !.readable = FALSE]
            /\ UNCHANGED zipped
    /\ UNCHANGED <<course, files, resources, organizations_tree, manifest,
                   genVars, webVars, docVars, slugVars>>

\* build, lines 117-123: the return of _create_zip (the end of its with
\* statement, line 282, closes the archive) and the print of the path.  The
\* close writes the directory of the archive; when it raises, the file is
\* left without it and the exception leaves build.  When it returns, the
\* archive is complete; the print of line 120 writes the path to stdout and
\* may raise (an encoding error, raised again by the print of line 122, a
\* closed or full stdout, a broken pipe), and then build raises with the
\* complete archive on disk.  Line 123 is reached when the print returns.
ZipClose(ok, printed) ==
    /\ bpc = "writing"
    /\ zipped = Len(files)
    /\ ok \/ ~printed
    /\ bpc' = IF ok /\ printed THEN "done" ELSE "failed"
    /\ disk' = [disk EXCEPT !.closed = TRUE, !.readable = ok]
    /\ UNCHANGED <<course, files, resources, organizations_tree, manifest, zipped,
                   genVars, webVars, docVars, slugVars>>

BuildNext ==
    \/ \E arg \in CourseArgs, renderFails \in BOOLEAN : Build(arg, renderFails)
    \/ \E ok \in BOOLEAN : ZipOpen(ok)
    \/ \E out \in WriteOutcomes : ZipWrite(out)
    \/ \E ok, printed \in BOOLEAN : ZipClose(ok, printed)

(***************************************************************************)
(* scorm_builder.py: _slugify.  A text is a list of characters; an ASCII   *)
(* character is the one-character string, any other character is written   *)
(* by its Unicode name.                                                    *)
(***************************************************************************)
IsAscii(c) == Len(c) = 1

AsciiAlnum ==
    {"a", "b", "c", "d", "e", "f", "g", "h", "i", "j", "k", "l", "m", "n", "o", "p", "q",
     "r", "s", "t", "u", "v", "w", "x", "y", "z",
     "A", "B", "C", "D", "E", "F", "G", "H", "I", "J", "K", "L", "M", "N", "O", "P", "Q",
     "R", "S", "T", "U", "V", "W", "X", "Y", "Z",
     "0", "1", "2", "3", "4", "5", "6", "7", "8", "9"}

\* str.lower() of one character: the capital letters of the Russian alphabet
\* and of ASCII; the other characters used here have no lower case
SlugLower(c) ==
    CASE c = "CYRILLIC CAPITAL LETTER A" -> "CYRILLIC SMALL LETTER A"
      [] c = "CYRILLIC CAPITAL LETTER BE" -> "CYRILLIC SMALL LETTER BE"
      [] c = "CYRILLIC CAPITAL LETTER VE" -> "CYRILLIC SMALL LETTER VE"
      [] c = "CYRILLIC CAPITAL LETTER GHE" -> "CYRILLIC SMALL LETTER GHE"
      [] c = "CYRILLIC CAPITAL LETTER DE" -> "CYRILLIC SMALL LETTER DE"
      [] c = "CYRILLIC CAPITAL LETTER IE" -> "CYRILLIC SMALL LETTER IE"
      [] c = "CYRILLIC CAPITAL LETTER IO" -> "CYRILLIC SMALL LETTER IO"
      [] c = "CYRILLIC CAPITAL LETTER ZHE" -> "CYRILLIC SMALL LETTER ZHE"
      [] c = "CYRILLIC CAPITAL LETTER ZE" -> "CYRILLIC SMALL LETTER ZE"
      [] c = "CYRILLIC CAPITAL LETTER I" -> "CYRILLIC SMALL LETTER I"
      [] c = "CYRILLIC CAPITAL LETTER SHORT I" -> "CYRILLIC SMALL LETTER SHORT I"
      [] c = "CYRILLIC CAPITAL LETTER KA" -> "CYRILLIC SMALL LETTER KA"
      [] c = "CYRILLIC CAPITAL LETTER EL" -> "CYRILLIC SMALL LETTER EL"
      [] c = "CYRILLIC CAPITAL LETTER EM" -> "CYRILLIC SMALL LETTER EM"
      [] c = "CYRILLIC CAPITAL LETTER EN" -> "CYRILLIC SMALL LETTER EN"
      [] c = "CYRILLIC CAPITAL LETTER O" -> "CYRILLIC SMALL LETTER O"
      [] c = "CYRILLIC CAPITAL LETTER PE" -> "CYRILLIC SMALL LETTER PE"
      [] c = "CYRILLIC CAPITAL LETTER ER" -> "CYRILLIC SMALL LETTER ER"
      [] c = "CYRILLIC CAPITAL LETTER ES" -> "CYRILLIC SMALL LETTER ES"
      [] c = "CYRILLIC CAPITAL LETTER TE" -> "CYRILLIC SMALL LETTER TE"
      [] c = "CYRILLIC CAPITAL LETTER U" -> "CYRILLIC SMALL LETTER U"
      [] c = "CYRILLIC CAPITAL LETTER EF" -> "CYRILLIC SMALL LETTER EF"
      [] c = "CYRILLIC CAPITAL LETTER HA" -> "CYRILLIC SMALL LETTER HA"
      [] c = "CYRILLIC CAPITAL LETTER TSE" -> "CYRILLIC SMALL LETTER TSE"
      [] c = "CYRILLIC CAPITAL LETTER CHE" -> "CYRILLIC SMALL LETTER CHE"
      [] c = "CYRILLIC CAPITAL LETTER SHA" -> "CYRILLIC SMALL LETTER SHA"
      [] c = "CYRILLIC CAPITAL LETTER SHCHA" -> "CYRILLIC SMALL LETTER SHCHA"
      [] c = "CYRILLIC CAPITAL LETTER HARD SIGN" -> "CYRILLIC SMALL LETTER HARD SIGN"
      [] c = "CYRILLIC CAPITAL LETTER YERU" -> "CYRILLIC SMALL LETTER YERU"
      [] c = "CYRILLIC CAPITAL LETTER SOFT SIGN" -> "CYRILLIC SMALL LETTER SOFT SIGN"
      [] c = "CYRILLIC CAPITAL LETTER E" -> "CYRILLIC SMALL LETTER E"
      [] c = "CYRILLIC CAPITAL LETTER YU" -> "CYRILLIC SMALL LETTER YU"
      [] c = "CYRILLIC CAPITAL LETTER YA" -> "CYRILLIC SMALL LETTER YA"
      [] OTHER -> LowerChar(c)

\* translit.get(c, c), the table of lines 289-296
Translit(c) ==
    CASE c = "CYRILLIC SMALL LETTER A" -> <<"a">>
      [] c = "CYRILLIC SMALL LETTER BE" -> <<"b">>
      [] c = "CYRILLIC SMALL LETTER VE" -> <<"v">>
      [] c = "CYRILLIC SMALL LETTER GHE" -> <<"g">>
      [] c = "CYRILLIC SMALL LETTER DE" -> <<"d">>
      [] c = "CYRILLIC SMALL LETTER IE" -> <<"e">>
      [] c = "CYRILLIC SMALL LETTER IO" -> <<"y", "o">>
      [] c = "CYRILLIC SMALL LETTER ZHE" -> <<"z", "h">>
      [] c = "CYRILLIC SMALL LETTER ZE" -> <<"z">>
      [] c = "CYRILLIC SMALL LETTER I" -> <<"i">>
      [] c = "CYRILLIC SMALL LETTER SHORT I" -> <<"j">>
      [] c = "CYRILLIC SMALL LETTER KA" -> <<"k">>
      [] c = "CYRILLIC SMALL LETTER EL" -> <<"l">>
      [] c = "CYRILLIC SMALL LETTER EM" -> <<"m">>
      [] c = "CYRILLIC SMALL LETTER EN" -> <<"n">>
      [] c = "CYRILLIC SMALL LETTER O" -> <<"o">>
      [] c = "CYRILLIC SMALL LETTER PE" -> <<"p">>
      [] c = "CYRILLIC SMALL LETTER ER" -> <<"r">>
      [] c = "CYRILLIC SMALL LETTER ES" -> <<"s">>
      [] c = "CYRILLIC SMALL LETTER TE" -> <<"t">>
      [] c = "CYRILLIC SMALL LETTER U" -> <<"u">>
      [] c = "CYRILLIC SMALL LETTER EF" -> <<"f">>
      [] c = "CYRILLIC SMALL LETTER HA" -> <<"k", "h">>
      [] c = "CYRILLIC SMALL LETTER TSE" -> <<"t", "s">>
      [] c = "CYRILLIC SMALL LETTER CHE" -> <<"c", "h">>
      [] c = "CYRILLIC SMALL LETTER SHA" -> <<"s", "h">>
      [] c = "CYRILLIC SMALL LETTER SHCHA" -> <<"s", "h", "c", "h">>
      [] c = "CYRILLIC SMALL LETTER HARD SIGN" -> <<>>
      [] c = "CYRILLIC SMALL LETTER YERU" -> <<"y">>
      [] c = "CYRILLIC SMALL LETTER SOFT SIGN" -> <<>>
      [] c = "CYRILLIC SMALL LETTER E" -> <<"e">>
      [] c = "CYRILLIC SMALL LETTER YU" -> <<"y", "u">>
      [] c = "CYRILLIC SMALL LETTER YA" -> <<"y", "a">>
      [] OTHER -> <<c>>

\* line 297: what one character of text.lower() contributes
SlugChar(c) ==
    IF (IsAscii(c) /\ (c \in AsciiAlnum \/ c \in {"-", "_"})) \/ ~IsAscii(c)
    THEN Translit(c)
    ELSE IF c \in {" ", "\t"} THEN <<"-">>
    ELSE <<>>

RECURSIVE SlugJoin(_)
SlugJoin(text) ==
    IF text = <<>> THEN <<>> ELSE SlugChar(SlugLower(Head(text))) \o SlugJoin(Tail(text))

\* str.replace("--", "-"): one pass from the left over non-overlapping
\* occurrences
RECURSIVE ReplaceDoubleHyphen(_)
ReplaceDoubleHyphen(cs) ==
    IF Len(cs) < 2 THEN cs
    ELSE IF cs[1] = "-" /\ cs[2] = "-"
         THEN <<"-">> \o ReplaceDoubleHyphen(SubSeq(cs, 3, Len(cs)))
         ELSE <<cs[1]>> \o ReplaceDoubleHyphen(Tail(cs))

\* str.strip("-")
RECURSIVE StripHyphens(_)
StripHyphens(cs) ==
    IF cs = <<>> THEN cs
    ELSE IF cs[1] = "-" THEN StripHyphens(Tail(cs))
    ELSE IF cs[Len(cs)] = "-" THEN StripHyphens(SubSeq(cs, 1, Len(cs) - 1))
    ELSE cs

\* lines 297-299
slugify(text) ==
    LET s == StripHyphens(ReplaceDoubleHyphen(SlugJoin(text)))
    IN  IF s = <<>> THEN <<"c", "o", "u", "r", "s", "e">> ELSE s

\* the texts of at most MaxTitleLen characters over letters, space, hyphen
\* and punctuation, and the titles of the tests with other characters
SlugInputs ==
    UNION {[1..n -> {"a", "B", " ", "-", "!"}] : n \in 0..MaxTitleLen}
      \cup { <<"CYRILLIC CAPITAL LETTER O", "CYRILLIC SMALL LETTER ES",
               "CYRILLIC SMALL LETTER EN", "CYRILLIC SMALL LETTER O",
               "CYRILLIC SMALL LETTER VE", "CYRILLIC SMALL LETTER YERU", " ", "P", "y", "t",
               "h", "o", "n">>,
             <<"M", "a", "c", "h", "i", "n", "e", " ", "L", "e", "a", "r", "n", "i", "n", "g",
               " ", "B", "a", "s", "i", "c", "s">>,
             <<"CYRILLIC CAPITAL LETTER KA", "CYRILLIC SMALL LETTER U",
               "CYRILLIC SMALL LETTER ER", "CYRILLIC SMALL LETTER ES", " ",
               "CYRILLIC SMALL LETTER PE", "CYRILLIC SMALL LETTER O", " ", "D", "o", "c", "k",
               "e", "r", " ", "1", "0", "1">>,
             <<"CYRILLIC CAPITAL LETTER TE", "CYRILLIC SMALL LETTER IE",
               "CYRILLIC SMALL LETTER ES", "CYRILLIC SMALL LETTER TE", "!", "@", "#", "$",
               "%", "^", "&", "*", "(", ")">>,
             <<"a", " ", " ", " ", "b", " ", " ", " ", "c">>,
             <<"CYRILLIC CAPITAL LETTER IO", "CYRILLIC SMALL LETTER ZHE", " ",
               "CYRILLIC SMALL LETTER HARD SIGN">>,
             <<"CYRILLIC SMALL LETTER SHCHA", "CYRILLIC SMALL LETTER I", "\t", "_", "1">>,
             <<"LATIN SMALL LETTER E WITH ACUTE", "NO-BREAK SPACE", "x">>,
             <<"CYRILLIC CAPITAL LETTER A", "CYRILLIC CAPITAL LETTER BE",
               "CYRILLIC CAPITAL LETTER VE", "CYRILLIC CAPITAL LETTER GHE",
               "CYRILLIC CAPITAL LETTER DE", "CYRILLIC CAPITAL LETTER IE",
               "CYRILLIC CAPITAL LETTER IO", "CYRILLIC CAPITAL LETTER ZHE",
               "CYRILLIC CAPITAL LETTER ZE", "CYRILLIC CAPITAL LETTER I",
               "CYRILLIC CAPITAL LETTER SHORT I", "CYRILLIC CAPITAL LETTER KA",
               "CYRILLIC CAPITAL LETTER EL", "CYRILLIC CAPITAL LETTER EM",
               "CYRILLIC CAPITAL LETTER EN", "CYRILLIC CAPITAL LETTER O",
               "CYRILLIC CAPITAL LETTER PE", "CYRILLIC CAPITAL LETTER ER",
               "CYRILLIC CAPITAL LETTER ES", "CYRILLIC CAPITAL LETTER TE",
               "CYRILLIC CAPITAL LETTER U", "CYRILLIC CAPITAL LETTER EF",
               "CYRILLIC CAPITAL LETTER HA", "CYRILLIC CAPITAL LETTER TSE",
               "CYRILLIC CAPITAL LETTER CHE", "CYRILLIC CAPITAL LETTER SHA",
               "CYRILLIC CAPITAL LETTER SHCHA", "CYRILLIC CAPITAL LETTER HARD SIGN",
               "CYRILLIC CAPITAL LETTER YERU", "CYRILLIC CAPITAL LETTER SOFT SIGN",
               "CYRILLIC CAPITAL LETTER E", "CYRILLIC CAPITAL LETTER YU",
               "CYRILLIC CAPITAL LETTER YA">> }

SlugInit ==
    /\ stext = <<>>
    /\ slug = <<>>

\* one call of _slugify
Slugify ==
    /\ slug = <<>>
    /\ slug' = slugify(stext)
    /\ UNCHANGED <<stext, genVars, webVars, buildVars, docVars>>

(***************************************************************************)
(* Structural validator: LLMCourseGenerator.validate_course_json, called   *)
(* by update_course (web_app.py) and by test_llm_generator.py              *)
(***************************************************************************)
VALID_BLOCK_TYPES == {"text", "mcq", "truefalse", "fillin", "matching", "ordering"}

\* the concatenation of F(x) over the elements of a list, in order
RECURSIVE FlatMap(_, _)
FlatMap(F(_), xs) ==
    IF xs = <<>> THEN <<>> ELSE F(Head(xs)) \o FlatMap(F, Tail(xs))

\* the number of options marked correct
CountCorrect(options) ==
    Cardinality({i \in 1..Len(options) : Get(options[i], "correct", FALSE)})

\* variant that asks an mcq block for 3 options
validate_block_ThreeOptions(b) ==
    LET t == b.type
    IN  IF t \notin VALID_BLOCK_TYPES THEN <<"unknown block type: " \o t>>
        ELSE IF t = "mcq"
        THEN (IF Len(Get(b, "options", <<>>)) < 3
              THEN <<"mcq needs at least 2 options">> ELSE <<>>)
             \o (IF CountCorrect(Get(b, "options", <<>>)) # 1
                 THEN <<"mcq needs exactly 1 correct option">> ELSE <<>>)
        ELSE IF t \in {"truefalse", "fillin"}
        THEN (IF "correct_answer" \notin DOMAIN b
              THEN <<t \o " needs correct_answer">> ELSE <<>>)
        ELSE IF t = "matching"
        THEN (IF Len(Get(b, "pairs", <<>>)) < 2
              THEN <<"matching needs at least 2 pairs">> ELSE <<>>)
        ELSE IF t = "ordering"
        THEN (IF Len(Get(b, "items", <<>>)) < 2
              THEN <<"ordering needs at least 2 items">> ELSE <<>>)
        ELSE <<>>

\* variant that accepts an mcq block without a correct option
validate_block_ZeroCorrect(b) ==
    LET t == b.type
    IN  IF t \notin VALID_BLOCK_TYPES THEN <<"unknown block type: " \o t>>
        ELSE IF t = "mcq"
        THEN (IF Len(Get(b, "options", <<>>)) < 2
              THEN <<"mcq needs at least 2 options">> ELSE <<>>)
             \o (IF CountCorrect(Get(b, "options", <<>>)) > 1
                 THEN <<"mcq needs exactly 1 correct option">> ELSE <<>>)
        ELSE IF t \in {"truefalse", "fillin"}
        THEN (IF "correct_answer" \notin DOMAIN b
              THEN <<t \o " needs correct_answer">> ELSE <<>>)
        ELSE IF t = "matching"
        THEN (IF Len(Get(b, "pairs", <<>>)) < 2
              THEN <<"matching needs at least 2 pairs">> ELSE <<>>)
        ELSE IF t = "ordering"
        THEN (IF Len(Get(b, "items", <<>>)) < 2
              THEN <<"ordering needs at least 2 items">> ELSE <<>>)
        ELSE <<>>

\* variant that checks correct_answer on truefalse blocks only
validate_block_FillinUnchecked(b) ==
    LET t == b.type
    IN  IF t \notin VALID_BLOCK_TYPES THEN <<"unknown block type: " \o t>>
        ELSE IF t = "mcq"
        THEN (IF Len(Get(b, "options", <<>>)) < 2
              THEN <<"mcq needs at least 2 options">> ELSE <<>>)
             \o (IF CountCorrect(Get(b, "options", <<>>)) # 1
                 THEN <<"mcq needs exactly 1 correct option">> ELSE <<>>)
        ELSE IF t = "truefalse"
        THEN (IF "correct_answer" \notin DOMAIN b
              THEN <<t \o " needs correct_answer">> ELSE <<>>)
        ELSE IF t = "matching"
        THEN (IF Len(Get(b, "pairs", <<>>)) < 2
              THEN <<"matching needs at least 2 pairs">> ELSE <<>>)
        ELSE IF t = "ordering"
        THEN (IF Len(Get(b, "items", <<>>)) < 2
              THEN <<"ordering needs at least 2 items">> ELSE <<>>)
        ELSE <<>>

\* the defects of one block: the type is one of the six kinds, and the rule
\* of its kind holds
validate_block(b) ==
    LET t == b.type
    IN  IF t \notin VALID_BLOCK_TYPES THEN <<"unknown block type: " \o t>>
        ELSE IF t = "mcq"
        THEN (IF Len(Get(b, "options", <<>>)) < 2
              THEN <<"mcq needs at least 2 options">> ELSE <<>>)
             \o (IF CountCorrect(Get(b, "options", <<>>)) # 1
                 THEN <<"mcq needs exactly 1 correct option">> ELSE <<>>)
        ELSE IF t \in {"truefalse", "fillin"}
        THEN (IF "correct_answer" \notin DOMAIN b
              THEN <<t \o " needs correct_answer">> ELSE <<>>)
        ELSE IF t = "matching"
        THEN (IF Len(Get(b, "pairs", <<>>)) < 2
              THEN <<"matching needs at least 2 pairs">> ELSE <<>>)
        ELSE IF t = "ordering"
        THEN (IF Len(Get(b, "items", <<>>)) < 2
              THEN <<"ordering needs at least 2 items">> ELSE <<>>)
        ELSE <<>>

validate_screen(screen) == FlatMap(validate_block, Get(screen, "blocks", <<>>))

\* a unit must have screens; the blocks of its screens and of its
\* knowledge check are validated
validate_sco(sco) ==
    (IF "screens" \notin DOMAIN sco THEN <<"unit has no 'screens'">> ELSE <<>>)
        \o FlatMap(validate_screen, Get(sco, "screens", <<>>))
        \o FlatMap(validate_block, Get(sco, "knowledge_check", <<>>))

validate_section(sec) ==
    (IF "scos" \notin DOMAIN sec THEN <<"section has no 'scos'">> ELSE <<>>)
        \o FlatMap(validate_sco, Get(sec, "scos", <<>>))

validate_module(mod) ==
    (IF "title" \notin DOMAIN mod THEN <<"module has no 'title'">> ELSE <<>>)
        \o (IF "sections" \notin DOMAIN mod THEN <<"module has no 'sections'">> ELSE <<>>)
        \o FlatMap(validate_section, Get(mod, "sections", <<>>))

\* the list of defects of a course argument (isdict: the root is an object)
validate_course_json(arg) ==
    IF ~arg.isdict THEN <<"root must be an object">>
    ELSE LET title_defect ==
                 IF "title" \notin DOMAIN arg.d THEN <<"missing field 'title'">> ELSE <<>>
         IN  IF "modules" \notin DOMAIN arg.d
             THEN title_defect \o <<"missing field 'modules'">>
             ELSE title_defect \o FlatMap(validate_module, arg.d["modules"])

\* blocks of every kind, some keeping and some breaking the rule of their kind
BlockSamples ==
    { TextBlock,
      McqBlock,
      [type |-> "mcq", title |-> "Q", body |-> "none",
       options |-> <<[text |-> "A", correct |-> FALSE], [text |-> "B", correct |-> FALSE]>>],
      [type |-> "mcq", title |-> "Q", body |-> "both",
       options |-> <<[text |-> "A", correct |-> TRUE], [text |-> "B", correct |-> TRUE]>>],
      [type |-> "mcq", title |-> "Q", body |-> "three",
       options |-> <<[text |-> "A", correct |-> FALSE], [text |-> "B", correct |-> TRUE],
                     [text |-> "C"]>>],
      [type |-> "mcq", title |-> "Q", body |-> "single",
       options |-> <<[text |-> "A", correct |-> TRUE]>>],
      [type |-> "mcq", title |-> "Q", body |-> "bare"],
      [type |-> "truefalse", title |-> "Q", body |-> "Stmt", correct_answer |-> TRUE],
      [type |-> "truefalse", title |-> "Q", body |-> "Stmt"],
      [type |-> "fillin", title |-> "Q", body |-> "___", correct_answer |-> "answer"],
      [type |-> "fillin", title |-> "Q", body |-> "___"],
      [type |-> "matching", title |-> "Q", body |-> "Match",
       pairs |-> <<[left |-> "A", right |-> "1"], [left |-> "B", right |-> "2"]>>],
      [type |-> "matching", title |-> "Q", body |-> "Match",
       pairs |-> <<[left |-> "A", right |-> "1"]>>],
      [type |-> "ordering", title |-> "Q", body |-> "Sort", items |-> <<"A", "B", "C">>],
      [type |-> "ordering", title |-> "Q", body |-> "Sort", items |-> <<"A">>],
      [type |-> "foobar", title |-> "Q", body |-> "?"] }

UnitWith(blocks, checks) ==
    [title |-> "U", screens |-> <<[title |-> "Intro", blocks |-> blocks]>>,
     knowledge_check |-> checks]

DocOfUnits(scos) ==
    [title |-> "T",
     modules |-> <<[title |-> "M", sections |-> <<[title |-> "S", scos |-> scos]>>]>>]

\* one-unit documents with at most MaxBlocks blocks on the screen and in the
\* knowledge check together
BlockLists == UNION {[1..k -> BlockSamples] : k \in 0..MaxBlocks}

BlockDocs ==
    {DocOfUnits(<<UnitWith(p[1], p[2])>>) :
        p \in {q \in BlockLists \X BlockLists : Len(q[1]) + Len(q[2]) <= MaxBlocks}}

\* documents with fields missing at each level, and documents of several units
StructureDocs ==
    { [modules |-> <<>>],
      [title |-> "T"],
      [description |-> "D"],
      [title |-> "T", modules |-> <<>>],
      [title |-> "", modules |-> <<[title |-> "M", sections |-> <<>>]>>],
      [title |-> "T", modules |-> <<[sections |-> <<>>]>>],
      [title |-> "T", modules |-> <<[title |-> "M"]>>],
      [title |-> "T", modules |-> <<[title |-> "M", sections |-> <<[title |-> "S"]>>]>>],
      [title |-> "T", modules |-> <<[title |-> "M", sections |-> <<[scos |-> <<[title |-> "U"]>>]>>]>>],
      [title |-> "T", modules |-> <<[title |-> "M",
           sections |-> <<[scos |-> <<[title |-> "U", knowledge_check |-> <<McqBlock>>]>>]>>]>>],
      DocOfUnits(<<UnitWith(<<TextBlock>>, <<Question>>), UnitWith(<<>>, <<McqBlock>>)>>),
      ScenarioDoc }

ValidateArgs ==
    {[isdict |-> TRUE, d |-> c] : c \in BlockDocs \cup StructureDocs \cup LegacyDocs}
        \cup {[isdict |-> FALSE, d |-> EmptyDict]}

(***************************************************************************)
(* llm_generator.py: generate_from_file                                    *)
(***************************************************************************)
FileNotFound == [cls |-> "FileNotFoundError", status |-> 0, msg |-> "File not found"]
JsonDecodeError == [cls |-> "JSONDecodeError", status |-> 0, msg |-> "Expecting value"]
FileNoTitle  == [cls |-> "ValueError", status |-> 0, msg |-> "JSON must have field 'title'"]
FileNoPages  == [cls |-> "ValueError", status |-> 0, msg |-> "JSON must have array 'pages'"]

\* a file: whether it exists, what json.load makes of it (kind), the object
\* it holds, whether the value of its "pages" is a list, and what the entries
\* of that list are where d cannot hold them: "objects" (as in d), "number"
\* (the list [1]) or "number of blocks" (a page whose "blocks" is 5)
JsonFile(c, pages_is_list) ==
    [exists |-> TRUE, kind |-> "dict", d |-> c, pages_is_list |-> pages_is_list,
     entries |-> "objects"]

\* a file whose page list holds something other than objects with block lists
OddPagesFile(c, entries) ==
    [exists |-> TRUE, kind |-> "dict", d |-> c, pages_is_list |-> TRUE, entries |-> entries]

\* the page-list document of one page with two text blocks and one mcq block
LegacyScenarioDoc ==
    [title |-> "T", pages |-> <<[title |-> "P", blocks |-> <<TextBlock, TextBlock, McqBlock>>]>>]

NoFileArg ==
    [exists |-> FALSE, kind |-> "none", d |-> EmptyDict, pages_is_list |-> FALSE,
     entries |-> "objects"]

\* a document that has both a page list and modules
BothShapesDoc ==
    [title |-> "T", pages |-> <<>>, modules |-> <<ModuleOf(<<SectionOf(1)>>)>>]

FileArgs ==
    {JsonFile(c, TRUE) :
        c \in LegacyDocs \cup RejectedDocs \cup StructureDocs
                \cup {LegacyScenarioDoc, BothShapesDoc}}
      \cup { JsonFile([title |-> "T", pages |-> <<>>], FALSE),
             NoFileArg,
             [exists |-> TRUE, kind |-> "invalid", d |-> EmptyDict, pages_is_list |-> FALSE,
              entries |-> "objects"],
             [exists |-> TRUE, kind |-> "int", d |-> EmptyDict, pages_is_list |-> FALSE,
              entries |-> "objects"] }
      \cup {OddPagesFile(c, e) :
               c \in {[title |-> "T", pages |-> <<>>], BothShapesDoc},
               e \in {"number", "number of blocks"}}

\* lines 228-241
generate_from_file(f) ==
    IF ~f.exists THEN Raised(FileNotFound)
    ELSE IF f.kind = "invalid" THEN Raised(JsonDecodeError)
    ELSE IF f.kind = "int" THEN Raised(NotIterable)
    ELSE IF "title" \notin DOMAIN f.d THEN Raised(FileNoTitle)
    ELSE IF "pages" \notin DOMAIN f.d \/ ~f.pages_is_list THEN Raised(FileNoPages)
    ELSE Parsed(f.d)

DocInit ==
    /\ vpc = "idle"
    /\ vinput = NoCourse
    /\ vout = <<>>
    /\ fin = NoFileArg
    /\ fresult = NoResult

\* a call of validate_course_json, as far as the rules of the validator
\* decide it: the list of defects it returns for the argument
ValidateCourseJson(arg) ==
    /\ vpc = "idle"
    /\ vpc' = "validated"
    /\ vinput' = arg
    /\ vout' = validate_course_json(arg)
    /\ UNCHANGED <<fin, fresult, genVars, webVars, buildVars, slugVars>>

\* a call of generate_from_file
GenerateFromFile(f) ==
    /\ vpc = "idle"
    /\ vpc' = "loaded"
    /\ fin' = f
    /\ fresult' = generate_from_file(f)
    /\ UNCHANGED <<vinput, vout, genVars, webVars, buildVars, slugVars>>

NoGetOnInt == [cls |-> "AttributeError", status |-> 0,
               msg |-> "'int' object has no attribute 'get'"]
NoLenOfInt == [cls |-> "TypeError", status |-> 0, msg |-> "object of type 'int' has no len()"]

\* the document's blocks, page by page: p.get("blocks", []) for each page
PageBlocks(page) == Get(page, "blocks", <<>>)

\* main.py, lines 186-196: the pages are counted, then the blocks of every
\* page and those of type mcq or truefalse; a page that is a number has no
\* get and a "blocks" that is a number has no len, and nothing catches it
Statistics(f, c) ==
    IF f.entries = "number" THEN Raised(NoGetOnInt)
    ELSE IF f.entries = "number of blocks" THEN Raised(NoLenOfInt)
    ELSE LET blocks == FlatMap(PageBlocks, Get(c, "pages", <<>>))
         IN  [ok |-> TRUE, exc |-> NoExc,
              data |-> [pages |-> Len(Get(c, "pages", <<>>)),
                        total_blocks |-> Len(blocks),
                        quiz_blocks |-> Cardinality({i \in 1..Len(blocks) :
                            Get(blocks[i], "type", "") \in {"mcq", "truefalse"}})]]

\* main.py, lines 150-208 with --input: when generate_from_file raised the
\* program has exited; otherwise the statistics of the document are printed
\* and the document is given to build
MainBuild(renderFails) ==
    /\ vpc = "loaded"
    /\ fresult.ok
    /\ IF Statistics(fin, fresult.data).ok
       THEN Build([isdict |-> TRUE, d |-> fresult.data], renderFails)
       ELSE /\ vpc' = "crashed"
            /\ UNCHANGED <<vinput, vout, fin, fresult, genVars, webVars, buildVars,
                           slugVars>>

DocNext ==
    \/ \E arg \in ValidateArgs : ValidateCourseJson(arg)
    \/ \E f \in FileArgs : GenerateFromFile(f)
    \/ \E renderFails \in BOOLEAN : MainBuild(renderFails)
    \/ \E ok \in BOOLEAN : ZipOpen(ok)
    \/ \E out \in WriteOutcomes : ZipWrite(out)
    \/ \E ok, printed \in BOOLEAN : ZipClose(ok, printed)

BuildIdle == BuildInit

GenIdle == GenInit /\ CacheInit /\ has_key = TRUE /\ installed = TRUE

InitGen ==
    /\ GenInit
    /\ has_key \in BOOLEAN
    /\ installed \in BOOLEAN
    /\ cache \in {EmptyCache, EarlierCache}
    /\ cpc = "idle"
    /\ ckey = NoKey
    /\ cresult = NoCall
    /\ WebInit
    /\ BuildIdle
    /\ DocInit
    /\ SlugInit

SpecGen == InitGen /\ [][GenNext]_vars

InitWeb == WebInit /\ GenIdle /\ BuildIdle /\ DocInit /\ SlugInit

SpecWeb == InitWeb /\ [][WebNext]_vars

\* a started worker thread keeps running: the generator call ends (the
\* client's retries and timeouts are bounded) and the finally clause runs
WebFairness ==
    \A r \in Requests :
        /\ WF_vars(\E out \in RunOutcomes : BgGenerate(r, out))
        /\ WF_vars(BgFinally(r))

SpecWebFair == SpecWeb /\ WebFairness

\* a build starts with or without an archive of an earlier build at the path
InitBuild ==
    /\ GenIdle
    /\ WebInit
    /\ DocInit
    /\ SlugInit
    /\ course = NoCourse
    /\ bpc = "idle"
    /\ files = <<>>
    /\ resources = <<>>
    /\ organizations_tree = <<>>
    /\ manifest = NoManifest
    /\ zipped = 0
    /\ disk \in {NoFile, OldArchive}

SpecBuild == InitBuild /\ [][BuildNext]_vars

InitDoc == DocInit /\ GenIdle /\ WebInit /\ BuildIdle /\ SlugInit

SpecDoc == InitDoc /\ [][DocNext]_vars

InitSlug ==
    /\ stext \in SlugInputs
    /\ slug = <<>>
    /\ GenIdle
    /\ WebInit
    /\ BuildIdle
    /\ DocInit

SpecSlug == InitSlug /\ [][Slugify]_vars

(***************************************************************************)
(* Properties of the retry helper and of generate_course (SpecGen)         *)
(***************************************************************************)
HelperActive == gpc \in {"try", "sleep", "returned", "raised"}

\* C1: one invocation of _call_llm_with_retry issues at most 3 requests; the
\* k-th failed attempt (k < 3) that is retried is followed by one sleep of
\* 2^(k-1) seconds (1 s, then 2 s); after the 3rd attempt there is no sleep
\* and no further request: the helper raises the failure of that attempt.
C1_BoundedRetry ==
    HelperActive =>
        /\ tries <= 3
        /\ Len(sleeps) <= 2
        /\ \A k \in 1..Len(sleeps) : sleeps[k] = 2 ^ (k - 1)
        /\ gpc = "try" => Len(sleeps) = attempt /\ tries = attempt
        /\ gpc = "sleep" => /\ Len(sleeps) = attempt + 1
                            /\ tries = attempt + 1
                            /\ tries < 3
                            /\ ~lastOut.ok
        /\ gpc \in {"returned", "raised"} =>
              /\ Len(sleeps) = attempt
              /\ tries = IF installed THEN attempt + 1 ELSE 0
        /\ gpc = "raised" => /\ ~lastOut.ok
                             /\ helperExc = lastOut.exc
                             /\ helperExc # NoExc

C1_Witness ==
    /\ gpc = "raised"
    /\ tries = 3
    /\ sleeps = <<1, 2>>
    /\ helperExc = ConnRefused

\* C2: the helper gives up on a failure the code classifies as retryable only
\* at the 3rd attempt, and a success on any attempt k <= 3 makes the helper
\* return that response: the earlier failures are not surfaced, so the result
\* of the call is the parse of that response alone.
C2_SuccessAfterRetries ==
    /\ HelperActive /\ lastOut.ok => gpc = "returned"
    /\ gpc = "returned" => lastOut.ok /\ helperExc = NoExc
    /\ gpc = "raised" /\ IsRetryable(helperExc) => tries = 3
    /\ gpc = "done" /\ lastOut.ok => result = parse_llm_response(lastOut.raw)

C2_Witness ==
    /\ gpc = "done"
    /\ tries = 3
    /\ sleeps = <<1, 2>>
    /\ lastOut.ok
    /\ result.ok
    /\ result.exc = NoExc

\* C3: a fatal failure (authentication, malformed request) is never followed
\* by a sleep and a further attempt; only connection errors, timeouts and
\* HTTP 429/500/502/503 are.
C3_FatalNeverRetried ==
    gpc = "sleep" =>
        /\ IsTransportFailure(lastOut.exc)
        /\ ~IsFatalFailure(lastOut.exc)

\* C4: the instance switches to hint-less mode, and re-issues the request
\* without the hint, only when the service rejected the hint itself.
C4_FallbackOnlyOnHintRejection ==
    /\ supports_json_format = "False" => IsHintRejection(fallbackCause)
    /\ phase = "fallback" => IsHintRejection(fallbackCause)

\* C5: requests carry the hint exactly while the flag is undecided or True;
\* a call that reached the service leaves the flag decided; and once the flag
\* has left its undecided value it never changes.
C5_FlagDecidedOnce ==
    /\ [](/\ \A i \in 1..Len(requests) :
                requests[i].hint = (requests[i].flag # "False")
          /\ (gpc = "done" /\ Len(requests) > 0) => supports_json_format # "None"
          /\ (calls = 1 /\ Len(requests) > 0) => requests[1].hint)
    /\ [][supports_json_format # "None"
            => supports_json_format' = supports_json_format]_vars

C5_Witness ==
    /\ calls = 2
    /\ supports_json_format = "False"
    /\ Len(requests) > 0
    /\ ~requests[1].hint

\* C6: once a response has been received and parsed the call is over and no
\* further request is issued; when the response cannot be recovered into
\* structured data the call fails with a ValueError that is none of the
\* transport failures and that the retry helper would not retry.
Unrecoverable(raw) == parse_llm_response(raw).exc \in ParseErrors

C6_ParseFailureNotRetried ==
    /\ reqAtParse > 0 => gpc = "done" /\ Len(requests) = reqAtParse
    /\ (gpc = "done" /\ lastOut.ok /\ Unrecoverable(lastOut.raw)) =>
          /\ ~result.ok
          /\ result.exc \in ParseErrors
          /\ result.exc.cls = "ValueError"
          /\ \A t \in ServiceErrors : t.cls # result.exc.cls
          /\ ~IsTransportFailure(result.exc)
          /\ ~IsRetryable(result.exc)

C6_Witness ==
    /\ gpc = "done"
    /\ phase = "none"
    /\ calls = 1
    /\ lastOut.ok
    /\ result.exc = InvalidJson
    /\ Len(requests) = 3

(***************************************************************************)
(* Properties of the /api/generate boundary (SpecWeb)                      *)
(***************************************************************************)
InFlight == {r \in Requests : thread[r] \in {"running", "returned", "raised"}}

\* C7: at most one generation run is in flight at any time: a second worker
\* thread is never started while an earlier one has not finished.
C7_SingleRunInFlight == Cardinality(InFlight) <= 1

(***************************************************************************)
(* Properties of SCORMBuilder.build (SpecBuild)                            *)
(***************************************************************************)
StaticNames == {"style.css", "scorm_api.js", "imsmanifest.xml"}

\* the positions (module, section, unit) of the units of a document
UnitPositions(c) ==
    LET mods == Get(c, "modules", <<>>)
    IN  UNION {UNION {{<<m, s, u>> : u \in 1..Len(Get(Get(mods[m], "sections", <<>>)[s],
                                                      "scos", <<>>))} :
                         s \in 1..Len(Get(mods[m], "sections", <<>>))} :
                  m \in 1..Len(mods)}

UnitCount(c) == Cardinality(UnitPositions(c))

HasFinalTest(c) == "final_test" \in DOMAIN c /\ c["final_test"] # <<>>

Compiled == bpc \in {"zip", "writing", "done"}

\* C8: the assembler is all-or-nothing: whenever build has ended, by its
\* return or by an exception, a file this build left at the output path is
\* a closed, readable archive that holds every file with its content; a
\* failed write leaves no partial or corrupt file there.
C8_AllOrNothing ==
    (bpc \in {"failed", "done"} /\ disk.exists /\ disk.by = "build") =>
        /\ disk.closed
        /\ disk.readable
        /\ disk.empty = {}
        /\ disk.entries = [i \in 1..Len(files) |-> files[i].name]

\* C9: a document with N units yields exactly N resource identifiers and N
\* content file names, one more of each when final_test is non-empty, and
\* the identifiers and the file names are pairwise distinct.
C9_ResourceCount ==
    Compiled =>
        LET n == UnitCount(course.d) + (IF HasFinalTest(course.d) THEN 1 ELSE 0)
        IN  /\ Len(resources) = n
            /\ Cardinality({resources[i].res_id : i \in 1..Len(resources)}) = n
            /\ Cardinality({resources[i].href : i \in 1..Len(resources)}) = n
            /\ Cardinality(Names(files) \ StaticNames) = n
            /\ Len(files) = n + 3

C9_Witness ==
    /\ bpc = "done"
    /\ UnitCount(course.d) >= 3
    /\ Len(course.d["modules"]) = 2
    /\ HasFinalTest(course.d)
    /\ Len(resources) = UnitCount(course.d) + 1

\* C10: in a finished archive the hrefs of the manifest's resources are
\* exactly the generated content files of the archive.
C10_ManifestMatchesArchive ==
    bpc = "done" =>
        /\ disk.exists /\ disk.closed
        /\ {manifest.resources[i].href : i \in 1..Len(manifest.resources)}
              = {disk.entries[i] : i \in 1..Len(disk.entries)} \ StaticNames
        /\ \A i \in 1..Len(manifest.resources) :
              manifest.resources[i].files[1] = manifest.resources[i].href

C10_Witness ==
    /\ bpc = "done"
    /\ Len(manifest.resources) >= 3
    /\ \E i \in 1..Len(disk.entries) : disk.entries[i] = "final_test.html"
    /\ \E i \in 1..Len(disk.entries) : disk.entries[i] = "sco_1_1_1.html"

EntrySet == {disk.entries[i] : i \in 1..Len(disk.entries)}

UnitFileNames(c) ==
    {"sco_" \o ToStr(p[1] - 1) \o "_" \o ToStr(p[2] - 1) \o "_" \o ToStr(p[3] - 1) \o ".html" :
        p \in UnitPositions(c)}

ExpectedArchive(c) ==
    StaticNames \cup UnitFileNames(c)
        \cup (IF HasFinalTest(c) THEN {"final_test.html"} ELSE {})

\* C11: a finished archive holds exactly imsmanifest.xml, style.css,
\* scorm_api.js, one content file per unit and final_test.html iff the final
\* test is non-empty, each once and nothing else; for the one-unit scenario
\* document that is one unit file plus the three fixed files.
C11_ArchiveContents ==
    bpc = "done" =>
        /\ EntrySet = ExpectedArchive(course.d)
        /\ Len(disk.entries) = Cardinality(EntrySet)
        /\ Cardinality(EntrySet \ (StaticNames \cup {"final_test.html"}))
              = UnitCount(course.d)
        /\ ("final_test.html" \in EntrySet) = HasFinalTest(course.d)
        /\ course.d = ScenarioDoc => Len(disk.entries) = 4

C11_Witness ==
    /\ bpc = "done"
    /\ course.d = ScenarioDoc
    /\ disk.entries = <<"style.css", "scorm_api.js", "sco_0_0_0.html", "imsmanifest.xml">>

IsLegacy(c) == "title" \in DOMAIN c /\ "pages" \in DOMAIN c /\ "modules" \notin DOMAIN c

\* C12: build of a legacy page-list course (title plus pages) produces an
\* archive, and that archive holds imsmanifest.xml, index.html, style.css and
\* scorm_api.js.
C12_LegacyArchive ==
    (course.isdict /\ IsLegacy(course.d) /\ bpc # "idle") =>
        /\ bpc # "rejected"
        /\ bpc = "done" =>
              {"imsmanifest.xml", "index.html", "style.css", "scorm_api.js"} \subseteq EntrySet

ChildrenOf(items) ==
    UNION {{it.children[j] : j \in 1..Len(it.children)} : it \in items}

ModuleItems == {manifest.items[i] : i \in 1..Len(manifest.items)}
AllItems == ModuleItems \cup ChildrenOf(ModuleItems) \cup ChildrenOf(ChildrenOf(ModuleItems))

\* the items that refer to a resource: the units and the final test
LeafItems == {it \in AllItems : "identifierref" \in DOMAIN it}

PassingScore(c) ==
    IF "settings" \in DOMAIN c /\ "passing_score" \in DOMAIN c["settings"]
    THEN c["settings"]["passing_score"] ELSE 80

\* C13: every unit item and the final-test item of the manifest carries a
\* masteryscore equal to the passing score of the settings as a decimal
\* string (80 when the settings give none), no module or section item
\* carries one, and every manifest holds at least one masteryscore.
C13_MasteryScore ==
    Compiled =>
        /\ \A it \in AllItems :
              ("masteryscore" \in DOMAIN it) = ("identifierref" \in DOMAIN it)
        /\ \A it \in LeafItems : it.masteryscore = ToStr(PassingScore(course.d))
        /\ Cardinality(LeafItems)
              = UnitCount(course.d) + (IF HasFinalTest(course.d) THEN 1 ELSE 0)
        /\ \E it \in AllItems : "masteryscore" \in DOMAIN it

\* the part of C13 about the items that are there
MasteryOnLeaves ==
    Compiled =>
        /\ \A it \in AllItems :
              ("masteryscore" \in DOMAIN it) = ("identifierref" \in DOMAIN it)
        /\ \A it \in LeafItems : it.masteryscore = ToStr(PassingScore(course.d))
        /\ Cardinality(LeafItems)
              = UnitCount(course.d) + (IF HasFinalTest(course.d) THEN 1 ELSE 0)

\* the items of the manifest by level: one top-level item per module of the
\* document, then the item of the final test; sections below the modules,
\* units below the sections
ModuleLevel ==
    {manifest.items[i] : i \in 1..Min(Len(manifest.items), Len(Get(course.d, "modules", <<>>)))}
FinalLevel ==
    {manifest.items[i] : i \in (Len(Get(course.d, "modules", <<>>)) + 1)..Len(manifest.items)}
SectionLevel == ChildrenOf(ModuleLevel)
UnitLevel == ChildrenOf(SectionLevel)

ResourceIds == {manifest.resources[i].identifier : i \in 1..Len(manifest.resources)}

\* C24: every unit item and the final-test item refers to exactly one
\* resource of the resources section, every resource is referred to by
\* exactly one of these items, module and section items refer to none, and
\* every resource lists its own content file, style.css and scorm_api.js.
C24_ResourcesMatchLeaves ==
    Compiled =>
        /\ \A it \in ModuleLevel \cup SectionLevel : "identifierref" \notin DOMAIN it
        /\ \A it \in UnitLevel \cup FinalLevel :
              /\ "identifierref" \in DOMAIN it
              /\ Cardinality({i \in 1..Len(manifest.resources) :
                                 manifest.resources[i].identifier = it.identifierref}) = 1
        /\ \A i \in 1..Len(manifest.resources) :
              /\ Cardinality({it \in UnitLevel \cup FinalLevel :
                                 "identifierref" \in DOMAIN it
                                 /\ it.identifierref = manifest.resources[i].identifier}) = 1
              /\ manifest.resources[i].files
                    = <<manifest.resources[i].href, "style.css", "scorm_api.js">>
        /\ Cardinality(UnitLevel \cup FinalLevel) = Len(manifest.resources)
        /\ Cardinality(ResourceIds) = Len(manifest.resources)

C24_Witness ==
    /\ bpc = "done"
    /\ Cardinality(ModuleLevel) = 2
    /\ Cardinality(UnitLevel) >= 3
    /\ Cardinality(FinalLevel) = 1
    /\ Len(manifest.resources) = Cardinality(UnitLevel) + 1

\* the build call ended in the renderer: build raised before the manifest
\* and the files dict were complete
RenderFailed == bpc = "failed" /\ files = <<>>

\* C25: when the renderer fails build raises and the file at the output path
\* is as it was, absent or the archive of an earlier build; whenever this
\* build has written to the path, every page had been rendered before.
C25_RenderFailureIsFatal ==
    /\ [](RenderFailed => disk \in {NoFile, OldArchive} /\ zipped = 0)
    /\ [](disk.by = "build" =>
             /\ bpc \in {"writing", "done", "failed"}
             /\ Names(files) = ExpectedArchive(course.d))
    /\ [][(bpc = "idle" /\ bpc' = "failed") => disk' = disk]_vars

C25_Witness ==
    /\ RenderFailed
    /\ disk = OldArchive
    /\ UnitCount(course.d) >= 2
    /\ HasFinalTest(course.d)

ItemChildren(it) == it.children
ItemUnits(mod) == FlatMap(ItemChildren, mod.children)

\* the module items, the section items and the unit items of the manifest,
\* each in document order
ModuleItemSeq ==
    SubSeq(manifest.items, 1, Min(Len(manifest.items), Len(Get(course.d, "modules", <<>>))))
SectionItemSeq == FlatMap(ItemChildren, ModuleItemSeq)
UnitItemSeq == FlatMap(ItemUnits, ModuleItemSeq)

AllItemIds ==
    LET all == manifest.items \o SectionItemSeq \o UnitItemSeq
    IN  [i \in 1..Len(all) |-> all[i].identifier]

\* C30: the item identifiers of a manifest are pairwise distinct over all
\* levels; module items are MOD_m and section items MOD_m_SEC_s (from 0);
\* the unit items are ITEM_1..ITEM_N in document order, each referring to the
\* RES of the same number; the final test, when there is one, is the last
\* top-level item, after all modules, and is ITEM_(N+1) with RES_(N+1).
C30_ItemIdentifiers ==
    Compiled =>
        LET n    == UnitCount(course.d)
            nmod == Len(course.d["modules"])
        IN  /\ \A i, j \in 1..Len(AllItemIds) : i # j => AllItemIds[i] # AllItemIds[j]
            /\ Len(ModuleItemSeq) = nmod
            /\ \A m \in 1..nmod :
                  /\ ModuleItemSeq[m].identifier = "MOD_" \o ToStr(m - 1)
                  /\ \A x \in 1..Len(ModuleItemSeq[m].children) :
                        ModuleItemSeq[m].children[x].identifier
                           = "MOD_" \o ToStr(m - 1) \o "_SEC_" \o ToStr(x - 1)
            /\ Len(UnitItemSeq) = n
            /\ \A k \in 1..n :
                  /\ UnitItemSeq[k].identifier = "ITEM_" \o ToStr(k)
                  /\ UnitItemSeq[k].identifierref = "RES_" \o ToStr(k)
            /\ IF HasFinalTest(course.d)
               THEN /\ Len(manifest.items) = nmod + 1
                    /\ manifest.items[nmod + 1].identifier = "ITEM_" \o ToStr(n + 1)
                    /\ manifest.items[nmod + 1].identifierref = "RES_" \o ToStr(n + 1)
               ELSE Len(manifest.items) = nmod

C30_Witness ==
    /\ bpc = "done"
    /\ Len(course.d["modules"]) = 2
    /\ Len(SectionItemSeq) >= 3
    /\ UnitCount(course.d) = 3
    /\ Len(manifest.items) = 3
    /\ manifest.items[3].identifier = "ITEM_4"

\* C22: _validate_course accepts every dict that has a title and a pages
\* list, and raises ValueError for every other argument (no dict, no title,
\* no pages).
C22_ValidateCourseLegacy ==
    bpc # "idle" =>
        (bpc = "rejected")
            = ~(course.isdict /\ "title" \in DOMAIN course.d /\ "pages" \in DOMAIN course.d)

(***************************************************************************)
(* Properties of _slugify (SpecSlug)                                       *)
(***************************************************************************)
HasDoubleHyphen(cs) == \E i \in 1..(Len(cs) - 1) : cs[i] = "-" /\ cs[i + 1] = "-"

\* C23: _slugify returns a non-empty string, "course" when no character
\* survives, that contains no space and no two consecutive hyphens, whatever
\* runs of spaces the text has.
C23_SlugShape ==
    slug # <<>> =>
        /\ Len(slug) > 0
        /\ SlugJoin(stext) = <<>> => slug = <<"c", "o", "u", "r", "s", "e">>
        /\ \A i \in 1..Len(slug) : slug[i] # " "
        /\ ~HasDoubleHyphen(slug)

(***************************************************************************)
(* Properties of the structural validator and of the load path (SpecDoc)   *)
(***************************************************************************)
ScreenBlocks(screen) == Get(screen, "blocks", <<>>)
ScoBlocks(sco) ==
    FlatMap(ScreenBlocks, Get(sco, "screens", <<>>)) \o Get(sco, "knowledge_check", <<>>)
SectionBlocks(sec) == FlatMap(ScoBlocks, Get(sec, "scos", <<>>))
ModuleBlocks(mod) == FlatMap(SectionBlocks, Get(mod, "sections", <<>>))

\* the blocks of the screens and knowledge checks of a document, in order
BlocksOfDoc(c) == FlatMap(ModuleBlocks, Get(c, "modules", <<>>))

\* the number of defects of a list that contain the phrase
Mentions(phrase, errors) ==
    Cardinality({j \in 1..Len(errors) : Contains(phrase, errors[j])})

\* the number of blocks of a list that have the property
HowMany(P(_), bs) == Cardinality({i \in 1..Len(bs) : P(bs[i])})

MarkedCorrect(b) ==
    IF "options" \notin DOMAIN b THEN {}
    ELSE {i \in 1..Len(b.options) :
             "correct" \in DOMAIN b.options[i] /\ b.options[i].correct = TRUE}

OptionCount(b) == IF "options" \in DOMAIN b THEN Len(b.options) ELSE 0
PairCount(b)   == IF "pairs" \in DOMAIN b THEN Len(b.pairs) ELSE 0
ItemCount(b)   == IF "items" \in DOMAIN b THEN Len(b["items"]) ELSE 0

\* the rule of the block's kind, stated without the validator
BlockOk(b) ==
    /\ b.type \in {"text", "mcq", "truefalse", "fillin", "matching", "ordering"}
    /\ b.type = "mcq" => OptionCount(b) >= 2 /\ Cardinality(MarkedCorrect(b)) = 1
    /\ b.type \in {"truefalse", "fillin"} => "correct_answer" \in DOMAIN b
    /\ b.type = "matching" => PairCount(b) >= 2
    /\ b.type = "ordering" => ItemCount(b) >= 2

\* every module has a title and sections, every section scos, every unit screens
Complete(c) ==
    /\ "title" \in DOMAIN c
    /\ "modules" \in DOMAIN c
    /\ \A m \in 1..Len(c.modules) :
          /\ "title" \in DOMAIN c.modules[m]
          /\ "sections" \in DOMAIN c.modules[m]
          /\ \A x \in 1..Len(c.modules[m].sections) :
                /\ "scos" \in DOMAIN c.modules[m].sections[x]
                /\ \A u \in 1..Len(c.modules[m].sections[x].scos) :
                      "screens" \in DOMAIN c.modules[m].sections[x].scos[u]

IsValidDoc(c) ==
    /\ Complete(c)
    /\ c.title # ""
    /\ Len(c.modules) >= 1
    /\ \A i \in 1..Len(BlocksOfDoc(c)) : BlockOk(BlocksOfDoc(c)[i])

\* a page-list document that keeps the same rules: a non-empty title, at
\* least one page, every block of a known kind and keeping its rule
PageListBlocks(c) == FlatMap(PageBlocks, c.pages)

IsValidPageDoc(c) ==
    /\ "title" \in DOMAIN c
    /\ "pages" \in DOMAIN c
    /\ "modules" \notin DOMAIN c
    /\ c.title # ""
    /\ Len(c.pages) >= 1
    /\ \A i \in 1..Len(PageListBlocks(c)) : BlockOk(PageListBlocks(c)[i])

IsMcq(b) == b.type = "mcq"
McqWrongCount(b) == IsMcq(b) /\ Cardinality(MarkedCorrect(b)) # 1
McqTooFew(b) == IsMcq(b) /\ OptionCount(b) < 2

\* C16: every mcq block whose count of correct options is not 1 yields one
\* "exactly 1" defect, every mcq block with fewer than 2 options yields one
\* "at least 2 options" defect, and there is no other mcq defect: an mcq
\* block with at least 2 options and exactly one correct option yields none.
C16_McqDefects ==
    (vpc = "validated" /\ vinput.isdict /\ "modules" \in DOMAIN vinput.d) =>
        LET bs == BlocksOfDoc(vinput.d)
        IN  /\ Mentions("exactly 1", vout) = HowMany(McqWrongCount, bs)
            /\ Mentions("at least 2 options", vout) = HowMany(McqTooFew, bs)
            /\ Mentions("mcq", vout)
                  = HowMany(McqWrongCount, bs) + HowMany(McqTooFew, bs)
            /\ \A j \in 1..Len(vout) :
                  ~(Contains("exactly 1", vout[j])
                      /\ Contains("at least 2", vout[j]))

C16_Witness ==
    /\ vpc = "validated"
    /\ vinput.isdict
    /\ "modules" \in DOMAIN vinput.d
    /\ Len(BlocksOfDoc(vinput.d)) = 2
    /\ HowMany(McqWrongCount, BlocksOfDoc(vinput.d)) = 1
    /\ \E i \in 1..2 : BlocksOfDoc(vinput.d)[i] = McqBlock
    /\ Len(vout) = 1
    /\ Contains("exactly 1", vout[1])

NoAnswer(b) == b.type \in {"truefalse", "fillin"} /\ "correct_answer" \notin DOMAIN b
FewPairs(b) == b.type = "matching" /\ PairCount(b) < 2
FewItems(b) == b.type = "ordering" /\ ItemCount(b) < 2
IsFoobar(b) == b.type = "foobar"

\* the number of defects the rules give one block
ExpectedDefects(b) ==
    IF b.type \notin {"text", "mcq", "truefalse", "fillin", "matching", "ordering"} THEN 1
    ELSE (IF McqWrongCount(b) THEN 1 ELSE 0) + (IF McqTooFew(b) THEN 1 ELSE 0)
         + (IF NoAnswer(b) \/ FewPairs(b) \/ FewItems(b) THEN 1 ELSE 0)

\* C17: a truefalse or fillin block without correct_answer yields a defect
\* naming correct_answer, a matching block with fewer than 2 pairs and an
\* ordering block with fewer than 2 items an "at least 2" defect, a block of
\* an unknown type a defect naming the type, and a block keeping its rule
\* none: the defects of a complete document are those of its blocks.
C17_BlockRules ==
    (vpc = "validated" /\ vinput.isdict /\ "modules" \in DOMAIN vinput.d) =>
        LET bs == BlocksOfDoc(vinput.d)
        IN  /\ Mentions("correct_answer", vout) = HowMany(NoAnswer, bs)
            /\ Mentions("at least 2 pairs", vout) = HowMany(FewPairs, bs)
            /\ Mentions("at least 2 items", vout) = HowMany(FewItems, bs)
            /\ Mentions("foobar", vout) = HowMany(IsFoobar, bs)
            /\ Complete(vinput.d) =>
                  Len(vout)
                     = Cardinality({p \in (1..Len(bs)) \X (1..2) : p[2] <= ExpectedDefects(bs[p[1]])})

C17_Witness ==
    /\ vpc = "validated"
    /\ vinput.isdict
    /\ Complete(vinput.d)
    /\ Len(BlocksOfDoc(vinput.d)) = 2
    /\ HowMany(IsFoobar, BlocksOfDoc(vinput.d)) = 1
    /\ \E i \in 1..2 : BlocksOfDoc(vinput.d)[i].type = "fillin" /\ NoAnswer(BlocksOfDoc(vinput.d)[i])
    /\ Len(vout) = 2

\* the hierarchical form of a page list: one module with one section, one
\* unit per page, no pages field and an empty final_test
NormalizedFrom(c, pages) ==
    /\ "pages" \notin DOMAIN c
    /\ "modules" \in DOMAIN c
    /\ Len(c.modules) = 1
    /\ "sections" \in DOMAIN c.modules[1]
    /\ Len(c.modules[1].sections) = 1
    /\ "scos" \in DOMAIN c.modules[1].sections[1]
    /\ Len(c.modules[1].sections[1].scos) = Len(pages)
    /\ "final_test" \in DOMAIN c
    /\ c["final_test"] = <<>>

\* C18: loading a legacy page-list document gives its hierarchical form, and
\* loading that result again gives the same; loading a hierarchical document
\* gives the document unchanged.
C18_NormalizeIdempotent ==
    (vpc = "loaded" /\ fin.exists /\ fin.kind = "dict" /\ fin.pages_is_list
        /\ "title" \in DOMAIN fin.d) =>
        /\ ("pages" \in DOMAIN fin.d /\ "modules" \notin DOMAIN fin.d) =>
              /\ fresult.ok
              /\ NormalizedFrom(fresult.data, fin.d.pages)
              /\ generate_from_file(JsonFile(fresult.data, TRUE)) = fresult
        /\ "modules" \in DOMAIN fin.d =>
              /\ fresult.ok
              /\ fresult.data = fin.d

\* C21: the load-then-package path accepts every document that
\* generate_from_file accepted: build, given the loaded document, does not
\* reject it as an invalid input.
C21_LoadThenPackage ==
    (vpc = "loaded" /\ fresult.ok /\ bpc # "idle") => bpc # "rejected"

(***************************************************************************)
(* Properties of a generation run (SpecGen)                                *)
(***************************************************************************)
StageRank(prompt) ==
    CASE prompt = "outline" -> 1
      [] prompt = "unit content" -> 2
      [] prompt = "final assessment" -> 3
      [] OTHER -> 0

\* C19: a run that returns a document has asked for the outline first, then
\* for the content of the units, then for the final assessment: every
\* request belongs to one of the three stages, the first one is the outline
\* request, and no request of an earlier stage follows one of a later stage.
C19_StagesInOrder ==
    (gpc = "done" /\ result.ok) =>
        /\ Len(requests) > 0
        /\ \A i \in 1..Len(requests) : StageRank(requests[i].prompt) > 0
        /\ StageRank(requests[1].prompt) = 1
        /\ \A i, j \in 1..Len(requests) :
              i < j => StageRank(requests[i].prompt) <= StageRank(requests[j].prompt)

\* the response text decodes to a JSON object, directly or through the
\* outermost braces
DecodesToObject(raw) ==
    LET r      == StripTrailingCommas(StripFences(raw))
        start  == FirstBrace(r)
        end    == LastBrace(r)
    IN  \/ json_loads(r).kind = "dict"
        \/ /\ json_loads(r).kind = "error"
           /\ start >= 1
           /\ end > start
           /\ json_loads(SubSeq(r, start, end)).kind = "dict"

\* C20: when the response decodes to an object, generate_course returns it,
\* whatever structural rule (title, page list) the object breaks.
C20_DefectsDoNotAbort ==
    (gpc = "done" /\ lastOut.ok /\ DecodesToObject(lastOut.raw)) =>
        /\ result.ok
        /\ result.exc = NoExc

Hinted == {i \in 1..Len(requests) : requests[i].hint}
Unhinted == {i \in 1..Len(requests) : ~requests[i].hint}

\* C26: one generate_course call issues at most 6 requests, at most 3 with
\* the hint and at most 3 without it; requests of both kinds are issued only
\* by a call that found the flag undecided and whose hinted attempt raised,
\* the hinted ones first; a call on an instance whose flag is decided
\* issues at most 3 requests.
C26_RequestBudget ==
    /\ Len(requests) <= 6
    /\ Cardinality(Hinted) <= 3
    /\ Cardinality(Unhinted) <= 3
    /\ (Len(requests) > 0 /\ requests[1].flag # "None") => Len(requests) <= 3
    /\ (Hinted # {} /\ Unhinted # {}) =>
          /\ requests[1].flag = "None"
          /\ fallbackCause # NoExc
          /\ \A i \in Hinted, j \in Unhinted : i < j /\ requests[i].flag = "None"

C26_Witness ==
    /\ gpc = "done"
    /\ Len(requests) = 6
    /\ Cardinality(Hinted) = 3
    /\ ~result.ok


(***************************************************************************)
(* Properties of generate_course_cached                                    *)
(***************************************************************************)
\* a step that is one call of generate_course_cached up to its return from
\* the cache or its entry into generate_course
CachedCall == cpc # "generating" /\ cpc' \in {"hit", "unreadable", "generating"}

\* C29: a call of generate_course_cached whose key has a cache file sends no
\* request and returns the document of the file; after a generation that
\* returned, the next call with the same arguments is served from the cache
\* and returns the generated document; a call whose generation raised
\* writes no cache file.
C29_CacheBehaviour ==
    /\ [][(CachedCall /\ ckey' \in DOMAIN cache) =>
            /\ cpc' = "hit"
            /\ cresult' = Returned("dict", json_loads(cache[ckey']).data)
            /\ requests' = requests /\ calls' = calls /\ gpc' = gpc]_vars
    /\ [][(cpc \in {"stored", "unsaved"} /\ CachedCall /\ ckey' = ckey) =>
            /\ cpc' = "hit"
            /\ cresult' = Returned("dict", result.data)
            /\ requests' = requests /\ calls' = calls]_vars
    /\ [][(cpc = "generating" /\ cpc' = "raised") => cache' = cache]_vars
    /\ [](cpc = "raised" => ~cresult.ok /\ ckey \notin DOMAIN cache)


(***************************************************************************)
(* Properties of bg_generate and GET /api/generate-status                  *)
(***************************************************************************)
\* a worker thread only moves forward: started, then returned or raised,
\* then finished
ThreadSteps ==
    {<<"none", "running">>, <<"running", "returned">>, <<"running", "raised">>,
     <<"returned", "finished">>, <<"raised", "finished">>}

\* C27: every worker thread that was started finishes, and finishing sets
\* the in-flight flag to False, whether the generator returned or raised:
\* again and again no thread is in flight and the flag is False, and a
\* thread leaves the in-flight states only by finishing; a run that raises
\* records a message of at most ERROR_LIMIT characters and leaves
\* last_course_json as it was.
C27_FlagReleased ==
    /\ []<>(InFlight = {} /\ ~generating)
    /\ [][\A r \in Requests :
            thread'[r] # thread[r] => <<thread[r], thread'[r]>> \in ThreadSteps]_vars
    /\ [][\A r \in Requests :
            (thread[r] # "finished" /\ thread'[r] = "finished") => ~generating']_vars
    /\ [][\A r \in Requests :
            (thread[r] = "running" /\ thread'[r] = "raised") =>
                /\ last_error' # NoError
                /\ last_error'.len <= ERROR_LIMIT
                /\ last_course_json' = last_course_json]_vars

\* a course was uploaded, a run raised with a message longer than the
\* limit, every thread finished and the uploaded course is still stored
C27_Witness ==
    /\ \A r \in Requests : thread[r] = "finished"
    /\ ~generating
    /\ last_course_json = UploadedCourse
    /\ last_error = Message("long", ERROR_LIMIT)


====
